---- MODULE Spec2Model ----
(***************************************************************************)
(* clanka-api: the state-reconciliation and derived-status engine of the   *)
(* edge worker (current index.ts).  One group of variables per component; *)
(* each component has its own specification, and the variables of the     *)
(* other components stay parked at their initial value.                    *)
(***************************************************************************)
EXTENDS Integers, Naturals, Sequences, FiniteSets, TLC

VARIABLES
  \* ---- Metrics Reconciler ----
  inMemoryMetrics,  \* instance -> MetricsState (module-level object, one per isolate)
  metricsKv,        \* raw value under METRICS_KEY: "null", "corrupt" or a record
  mpc,              \* execution -> position inside incrementMetrics
  minst,            \* execution -> the instance it runs on
  mraw,             \* execution -> raw value its KV get returned
  mnext,            \* execution -> merged state it is about to put
  \* ---- clock ----
  now,              \* Date.now(), epoch milliseconds (0 = start of the run)
  ticks,            \* number of clock advances so far (bounds the run)
  \* ---- Rate Limiter ----
  rlKv,             \* client -> raw value under rate_limit:ip:<client>
  rlResp,           \* outcome of the last rate-limited request
  rlSeenStart,      \* observer: time of the first request of the current 60 s window
  rlSeenCount,      \* observer: requests made in that window (capped at N+1)
  rlLastReject,     \* observer: time of the last 429 answer, -1 if none
  testEnv,          \* what isTestEnvironment() answers in this deployment
  routed,           \* the last request the fetch handler dispatched, with its outcome
  rlAllowedAt,      \* observer: times of the allowed requests less than 60 s old
  rlInFlight,       \* execution -> its position inside checkRateLimit, with what it read
  \* ---- environment and cached datasets ----
  ghToken,          \* env.GITHUB_TOKEN: "absent" (unset or ""), "blank" (only whitespace), "set"
  regKv,            \* raw value under registry:v1
  regStaleKv,       \* raw value under registry:v1:stale
  chgKv,            \* raw value under changelog:meta-runner:v1
  statsKv,          \* raw value under github:stats:v1
  eventsKv,         \* raw value under github:events:v1
  trendKv,          \* repo -> raw value under ci:trend:<repo>:v1
  resp,             \* the last response of a read path, with the request's inputs
  \* ---- derived status: the input handed to a derivation and its result ----
  derivIn,
  derivOut,
  \* ---- fleet health ----
  healthKv,         \* raw value under fleet:health:v1, with its expiry time
  ciKv,             \* repo -> raw value under the repo's CI run key
  \* ---- presence and history ----
  historyKv,        \* raw value under "history"
  lastSeenKv,       \* raw value under LAST_SEEN_KEY
  presenceKv,       \* raw value under "presence", with its expiry time
  startedKv,        \* raw value under "started"
  teamKv,           \* raw value under "team"
  tasksKv,          \* raw value under "tasks"
  appended,         \* observer: number of history entries appended so far
  appendCalls,      \* observer: number of requests that appended to the history
  presResp,         \* the last response of a presence or history read
  hInFlight,        \* execution -> its position inside an appending handler, with its put
  hSupplied,        \* observer: the entries of the initial list and of the appends so far
  acceptedAt,       \* observer: time of the last accepted heartbeat or set-presence, -1 if none
  authFailKv        \* number of auth_fail:<time>:<random> keys written so far

metricsVars == <<inMemoryMetrics, metricsKv, mpc, minst, mraw, mnext>>
clockVars == <<now, ticks>>
rateAux == <<testEnv, routed, rlAllowedAt, rlInFlight>>
rateVars == <<rlKv, rlResp, rlSeenStart, rlSeenCount, rlLastReject, rateAux>>

cacheVars == <<ghToken, regKv, regStaleKv, chgKv, statsKv, eventsKv, trendKv, resp>>

derivVars == <<derivIn, derivOut>>

fleetVars == <<healthKv, ciKv>>

presenceVars ==
  <<historyKv, lastSeenKv, presenceKv, startedKv, teamKv, tasksKv, appended,
    appendCalls, presResp>>

appenderVars == <<hInFlight, hSupplied>>

vars ==
  <<metricsVars, clockVars, rateVars, cacheVars, derivVars, fleetVars, presenceVars,
    appenderVars, acceptedAt, authFailKv>>

\* what the steps of one component leave alone
MetricsFrame == UNCHANGED <<clockVars, rateVars, cacheVars, derivVars, fleetVars, presenceVars, appenderVars, acceptedAt, authFailKv>>
RateFrame == UNCHANGED <<metricsVars, cacheVars, derivVars, fleetVars, presenceVars, appenderVars, acceptedAt, authFailKv>>
CacheFrame == UNCHANGED <<metricsVars, clockVars, rateVars, derivVars, fleetVars, presenceVars, appenderVars, acceptedAt, authFailKv>>
DerivFrame == UNCHANGED <<metricsVars, clockVars, rateVars, cacheVars, fleetVars, presenceVars, appenderVars, acceptedAt, authFailKv>>
FleetFrame == UNCHANGED <<metricsVars, rateVars, derivVars, presenceVars, appenderVars, acceptedAt, authFailKv>>
PresenceFrame == UNCHANGED <<metricsVars, rateVars, cacheVars, derivVars, fleetVars, appenderVars, acceptedAt, authFailKv>>
AppenderFrame == UNCHANGED <<metricsVars, rateVars, cacheVars, derivVars, fleetVars, acceptedAt, authFailKv>>
DetectorFrame == UNCHANGED <<metricsVars, rateVars, cacheVars, derivVars, fleetVars, appenderVars, authFailKv>>
MutationFrame == UNCHANGED <<metricsVars, rateVars, cacheVars, derivVars, fleetVars, appenderVars, acceptedAt>>

(***************************************************************************)
(* Bounds of the model                                                     *)
(***************************************************************************)
MaxExecs == 3
MaxInstances == 2
MaxTicks == 4

Max2(a, b) == IF a >= b THEN a ELSE b

(***************************************************************************)
(* Metrics Reconciler                                                      *)
(***************************************************************************)
Execs == 1..MaxExecs
Instances == 1..MaxInstances

ZeroMetrics == [requests_total |-> 0, kv_hits |-> 0, kv_misses |-> 0]

\* A counter field is a number; a negative one stands for every value toCounter
\* rejects (non-number, non-finite, negative).
toCounter(value) == IF value < 0 THEN 0 ELSE value

\* A raw KV value: kind "null" (key absent), "corrupt" (a string that is not a
\* JSON object) or "json" (an object with the three fields).
RawMetrics(kind, rt, kh, km) ==
  [kind |-> kind, requests_total |-> rt, kv_hits |-> kh, kv_misses |-> km]

NullRaw == RawMetrics("null", 0, 0, 0)

\* JSON.stringify(next), line 606
stringifyMetrics(m) == RawMetrics("json", m.requests_total, m.kv_hits, m.kv_misses)

parseMetricsState(raw) ==
  IF raw.kind # "json"
    THEN ZeroMetrics
    ELSE [requests_total |-> toCounter(raw.requests_total),
          kv_hits |-> toCounter(raw.kv_hits),
          kv_misses |-> toCounter(raw.kv_misses)]

mergeMetricsState_overwrite(a, b) == a

mergeMetricsState(a, b) ==
  [requests_total |-> Max2(a.requests_total, b.requests_total),
   kv_hits |-> Max2(a.kv_hits, b.kv_hits),
   kv_misses |-> Max2(a.kv_misses, b.kv_misses)]

\* typeof raw === "string" && raw.length > 0: an unparseable string counts too
hasPersistedMetrics(raw) == raw.kind # "null"

incrementMetrics_next_noBump(mem, raw) == mergeMetricsState(mem, parseMetricsState(raw))

\* the state computed after the get resolved (lines 595-601)
incrementMetrics_next(mem, raw) ==
  LET persisted == parseMetricsState(raw)
      hit == hasPersistedMetrics(raw)
  IN mergeMetricsState(mem,
       [requests_total |-> persisted.requests_total + 1,
        kv_hits |-> persisted.kv_hits + (IF hit THEN 1 ELSE 0),
        kv_misses |-> persisted.kv_misses + (IF hit THEN 0 ELSE 1)])

MetricsInitKv ==
  {NullRaw, RawMetrics("corrupt", 0, 0, 0),
   RawMetrics("json", 2, 1, 1), RawMetrics("json", 1, -1, 0)}

MetricsParked ==
  /\ inMemoryMetrics = [i \in Instances |-> ZeroMetrics]
  /\ metricsKv = NullRaw
  /\ mpc = [p \in Execs |-> "idle"]
  /\ minst = [p \in Execs |-> 1]
  /\ mraw = [p \in Execs |-> NullRaw]
  /\ mnext = [p \in Execs |-> ZeroMetrics]

MetricsInit ==
  /\ inMemoryMetrics = [i \in Instances |-> ZeroMetrics]
  /\ metricsKv \in MetricsInitKv
  /\ mpc = [p \in Execs |-> "idle"]
  /\ minst = [p \in Execs |-> 1]
  /\ mraw = [p \in Execs |-> NullRaw]
  /\ mnext = [p \in Execs |-> ZeroMetrics]

\* Executions and isolates are interchangeable: executions start in index
\* order and a fresh isolate is the lowest unused one.
MayStart(p, i) ==
  /\ mpc[p] = "idle"
  /\ \A q \in Execs : q < p => mpc[q] # "idle"
  /\ \A j \in Instances : j < i => \E q \in Execs : mpc[q] # "idle" /\ minst[q] = j

\* line 587, then the KV get is issued (line 594)
IncrementMetricsStart(p, i) ==
  /\ MayStart(p, i)
  /\ minst' = [minst EXCEPT ![p] = i]
  /\ inMemoryMetrics' = [inMemoryMetrics EXCEPT
       ![i].requests_total = inMemoryMetrics[i].requests_total + 1]
  /\ mpc' = [mpc EXCEPT ![p] = "get"]
  /\ UNCHANGED <<metricsKv, mraw, mnext>>

\* lines 587-591: env.CLANKA_STATE lacks get or put
IncrementMetricsNoKv(p, i) ==
  /\ MayStart(p, i)
  /\ minst' = [minst EXCEPT ![p] = i]
  /\ inMemoryMetrics' = [inMemoryMetrics EXCEPT
       ![i].requests_total = inMemoryMetrics[i].requests_total + 1,
       ![i].kv_misses = inMemoryMetrics[i].kv_misses + 1]
  /\ mpc' = [mpc EXCEPT ![p] = "done"]
  /\ UNCHANGED <<metricsKv, mraw, mnext>>

\* the store answers the get
IncrementMetricsGet(p) ==
  /\ mpc[p] = "get"
  /\ mraw' = [mraw EXCEPT ![p] = metricsKv]
  /\ mpc' = [mpc EXCEPT ![p] = "merge"]
  /\ UNCHANGED <<inMemoryMetrics, metricsKv, minst, mnext>>

\* the get or the put rejects: catch, line 608
IncrementMetricsKvThrows(p) ==
  /\ mpc[p] \in {"get", "put"}
  /\ inMemoryMetrics' = [inMemoryMetrics EXCEPT
       ![minst[p]].kv_misses = inMemoryMetrics[minst[p]].kv_misses + 1]
  /\ mpc' = [mpc EXCEPT ![p] = "done"]
  /\ mraw' = [mraw EXCEPT ![p] = NullRaw]
  /\ mnext' = [mnext EXCEPT ![p] = ZeroMetrics]
  /\ UNCHANGED <<metricsKv, minst>>

\* the continuation after the get: lines 595-606, up to issuing the put
IncrementMetricsMerge(p) ==
  /\ mpc[p] = "merge"
  /\ LET next == incrementMetrics_next(inMemoryMetrics[minst[p]], mraw[p])
     IN /\ inMemoryMetrics' = [inMemoryMetrics EXCEPT ![minst[p]] = next]
        /\ mnext' = [mnext EXCEPT ![p] = next]
  /\ mpc' = [mpc EXCEPT ![p] = "put"]
  /\ UNCHANGED <<metricsKv, minst, mraw>>

\* the store applies the put
IncrementMetricsPut(p) ==
  /\ mpc[p] = "put"
  /\ metricsKv' = stringifyMetrics(mnext[p])
  /\ mpc' = [mpc EXCEPT ![p] = "done"]
  /\ mraw' = [mraw EXCEPT ![p] = NullRaw]
  /\ mnext' = [mnext EXCEPT ![p] = ZeroMetrics]
  /\ UNCHANGED <<inMemoryMetrics, minst>>

\* an idle isolate is recycled: its module state starts again from line 495
RecycleInstance(i) ==
  /\ \A p \in Execs : minst[p] = i => mpc[p] \in {"idle", "done"}
  /\ inMemoryMetrics[i] # ZeroMetrics
  /\ inMemoryMetrics' = [inMemoryMetrics EXCEPT ![i] = ZeroMetrics]
  /\ UNCHANGED <<metricsKv, mpc, minst, mraw, mnext>>

MetricsNext ==
  \/ \E p \in Execs, i \in Instances : IncrementMetricsStart(p, i) /\ MetricsFrame
  \/ \E p \in Execs, i \in Instances : IncrementMetricsNoKv(p, i) /\ MetricsFrame
  \/ \E p \in Execs : IncrementMetricsGet(p) /\ MetricsFrame
  \/ \E p \in Execs : IncrementMetricsKvThrows(p) /\ MetricsFrame
  \/ \E p \in Execs : IncrementMetricsMerge(p) /\ MetricsFrame
  \/ \E p \in Execs : IncrementMetricsPut(p) /\ MetricsFrame
  \/ \E i \in Instances : RecycleInstance(i) /\ MetricsFrame

MetricsGeq(a, b) ==
  /\ a.requests_total >= b.requests_total
  /\ a.kv_hits >= b.kv_hits
  /\ a.kv_misses >= b.kv_misses

\* C1 (as stated): under every interleaving of recordRequest executions, no
\* counter of the persisted MetricsState decreases from one state of the store
\* to the next.
C1_PersistedNeverDecreases ==
  [][MetricsGeq(parseMetricsState(metricsKv'), parseMetricsState(metricsKv))]_vars

\* C1 (amended): every put stores counters at least as large as the ones the
\* same execution read, so a persisted counter decreases only when another
\* execution's put landed between this execution's get and its put.
C1_PutNotBelowOwnRead ==
  [][\A p \in Execs :
       (mpc[p] = "put" /\ mpc'[p] = "done" /\ metricsKv' # metricsKv)
         => /\ MetricsGeq(parseMetricsState(metricsKv'), parseMetricsState(mraw[p]))
            /\ (metricsKv = mraw[p]
                  => MetricsGeq(parseMetricsState(metricsKv'), parseMetricsState(metricsKv)))
    ]_vars

\* C1 witness: an execution is about to put although the put of an execution
\* on another instance landed after its own get, and its put lowers a counter.
C1_Witness ==
  \E p, q \in Execs :
    /\ p # q /\ minst[p] # minst[q]
    /\ mpc[p] = "done" /\ mpc[q] = "put"
    /\ mraw[q] # metricsKv
    /\ ~MetricsGeq(mnext[q], parseMetricsState(metricsKv))

\* executions that do not overlap: one starts only when none is in flight
NoneInFlight == \A q \in Execs : mpc[q] \in {"idle", "done"}

MetricsSeqNext ==
  \/ \E p \in Execs, i \in Instances :
       NoneInFlight /\ IncrementMetricsStart(p, i) /\ MetricsFrame
  \/ \E p \in Execs, i \in Instances :
       NoneInFlight /\ IncrementMetricsNoKv(p, i) /\ MetricsFrame
  \/ \E p \in Execs : IncrementMetricsGet(p) /\ MetricsFrame
  \/ \E p \in Execs : IncrementMetricsKvThrows(p) /\ MetricsFrame
  \/ \E p \in Execs : IncrementMetricsMerge(p) /\ MetricsFrame
  \/ \E p \in Execs : IncrementMetricsPut(p) /\ MetricsFrame
  \/ \E i \in Instances : RecycleInstance(i) /\ MetricsFrame

\* C27: when executions do not overlap, with isolates recycled and store
\* accesses failing at any point, no counter of the persisted state ever
\* decreases, and every execution that completes its put leaves the
\* persisted requests_total at least 1 above the value it read.
C27_SequentialMonotone ==
  [][/\ MetricsGeq(parseMetricsState(metricsKv'), parseMetricsState(metricsKv))
     /\ \A p \in Execs :
          IncrementMetricsPut(p)
            => parseMetricsState(metricsKv').requests_total
                 >= parseMetricsState(mraw[p]).requests_total + 1]_vars

\* C27 witness: three requests are counted in the store although isolate 1
\* was used and then recycled, and a failed store access left an isolate with
\* more misses than the store holds
C27_Witness ==
  /\ NoneInFlight
  /\ metricsKv.kind = "json"
  /\ parseMetricsState(metricsKv).requests_total >= 3
  /\ inMemoryMetrics[1] = ZeroMetrics
  /\ \E q \in Execs : mpc[q] = "done" /\ minst[q] = 1
  /\ \E i \in Instances :
       inMemoryMetrics[i].kv_misses > parseMetricsState(metricsKv).kv_misses

(***************************************************************************)
(* Clock                                                                   *)
(***************************************************************************)
RATE_LIMIT_WINDOW_SEC == 60
RATE_LIMIT_WINDOW_MS == RATE_LIMIT_WINDOW_SEC * 1000
RATE_LIMIT_MAX_REQUESTS == 10

\* the clock advances by one of these amounts (milliseconds)
TickSteps == {1, 1000, RATE_LIMIT_WINDOW_MS - 1001, RATE_LIMIT_WINDOW_MS}

ClockParked == now = 0 /\ ticks = 0

ObserverParked == acceptedAt = 0 - 1 /\ authFailKv = 0

Tick(d) ==
  /\ ticks < MaxTicks
  /\ now' = now + d
  /\ ticks' = ticks + 1

(***************************************************************************)
(* Rate Limiter                                                            *)
(***************************************************************************)
RlClients == {1}

\* A raw KV value under the client's key: kind "null" (absent), "corrupt"
\* (not JSON) or "json"; a count or resetAt of -1 stands for a value that is
\* not a finite number.  expiresAt is the KV expiry set by expirationTtl.
RawWindow(kind, count, resetAt, expiresAt) ==
  [kind |-> kind, count |-> count, resetAt |-> resetAt, expiresAt |-> expiresAt]

NullWindow == RawWindow("null", 0, 0, 0)

IsFiniteNumber(x) == x # -1

CeilDiv(a, b) == (a + b - 1) \div b

\* Math.max(1, Math.ceil((resetAt - now) / 1000)), lines 545 and 552
retryAfterSeconds(resetAt, t) ==
  IF resetAt - t <= 0 THEN 1 ELSE Max2(1, CeilDiv(resetAt - t, 1000))

currentWindow_keepExpired(raw, t) ==
  LET fresh == [count |-> 0, resetAt |-> t + RATE_LIMIT_WINDOW_MS]
      state == IF raw.kind = "json" THEN [count |-> raw.count, resetAt |-> raw.resetAt]
               ELSE fresh
      validState == IsFiniteNumber(state.count) /\ state.count >= 0
  IN IF validState /\ IsFiniteNumber(state.resetAt) THEN state ELSE fresh

currentWindow_anyCount(raw, t) ==
  LET fresh == [count |-> 0, resetAt |-> t + RATE_LIMIT_WINDOW_MS]
      state == IF raw.kind = "json" THEN [count |-> raw.count, resetAt |-> raw.resetAt]
               ELSE fresh
      hasWindow == IsFiniteNumber(state.resetAt) /\ state.resetAt > t
  IN IF hasWindow THEN state ELSE fresh

\* lines 536-542: the window the check works on
currentWindow(raw, t) ==
  LET fresh == [count |-> 0, resetAt |-> t + RATE_LIMIT_WINDOW_MS]
      state == IF raw.kind = "json" THEN [count |-> raw.count, resetAt |-> raw.resetAt]
               ELSE fresh
      hasWindow == IsFiniteNumber(state.resetAt) /\ state.resetAt > t
      validState == IsFiniteNumber(state.count) /\ state.count >= 0
  IN IF validState /\ hasWindow THEN state ELSE fresh

checkRateLimit_restart(raw, t) ==
  LET current == currentWindow(raw, t)
  IN IF current.count >= RATE_LIMIT_MAX_REQUESTS
       THEN [allowed |-> FALSE,
             retryAfter |-> retryAfterSeconds(current.resetAt, t),
             put |-> RawWindow("json", current.count, t + RATE_LIMIT_WINDOW_MS,
                               t + RATE_LIMIT_WINDOW_MS)]
       ELSE [allowed |-> TRUE,
             retryAfter |-> retryAfterSeconds(current.resetAt, t),
             put |-> RawWindow("json", current.count + 1, current.resetAt,
                               t + RATE_LIMIT_WINDOW_MS)]

checkRateLimit_oneMore(raw, t) ==
  LET current == currentWindow(raw, t)
  IN IF current.count > RATE_LIMIT_MAX_REQUESTS
       THEN [allowed |-> FALSE,
             retryAfter |-> retryAfterSeconds(current.resetAt, t),
             put |-> RawWindow("json", current.count, current.resetAt,
                               t + RATE_LIMIT_WINDOW_MS)]
       ELSE [allowed |-> TRUE,
             retryAfter |-> retryAfterSeconds(current.resetAt, t),
             put |-> RawWindow("json", current.count + 1, current.resetAt,
                               t + RATE_LIMIT_WINDOW_MS)]

checkRateLimit_countRejected(raw, t) ==
  LET current == currentWindow(raw, t)
  IN IF current.count >= RATE_LIMIT_MAX_REQUESTS
       THEN [allowed |-> FALSE,
             retryAfter |-> retryAfterSeconds(current.resetAt, t),
             put |-> RawWindow("json", current.count + 1, current.resetAt,
                               t + RATE_LIMIT_WINDOW_MS)]
       ELSE [allowed |-> TRUE,
             retryAfter |-> retryAfterSeconds(current.resetAt, t),
             put |-> RawWindow("json", current.count + 1, current.resetAt,
                               t + RATE_LIMIT_WINDOW_MS)]

\* lines 532-553: the decision and the value put back under the key
checkRateLimit(raw, t) ==
  LET current == currentWindow(raw, t)
  IN IF current.count >= RATE_LIMIT_MAX_REQUESTS
       THEN [allowed |-> FALSE,
             retryAfter |-> retryAfterSeconds(current.resetAt, t),
             put |-> RawWindow("json", current.count, current.resetAt,
                               t + RATE_LIMIT_WINDOW_MS)]
       ELSE [allowed |-> TRUE,
             retryAfter |-> retryAfterSeconds(current.resetAt, t),
             put |-> RawWindow("json", current.count + 1, current.resetAt,
                               t + RATE_LIMIT_WINDOW_MS)]

NoResp == [status |-> 0, allowed |-> TRUE, retryAfter |-> 0, at |-> 0]

\* a dispatched request: its method and path, the reads and writes of the
\* client's window key it made, and the status it was answered; odd tells an
\* odd number of requests have been dispatched so far
Routed(odd, method, path, reads, writes, status) ==
  [odd |-> odd, method |-> method, path |-> path, reads |-> reads,
   writes |-> writes, status |-> status]

NoRouted == Routed(FALSE, "", <<>>, 0, 0, 0)

\* the concurrent executions of checkRateLimit for one client
Racers == {1, 2}

\* an execution inside checkRateLimit: "idle" outside it, "read" between its
\* get (line 535) and its put (line 546 or 551), holding the value it read
\* and the Date.now() it took at line 534
InFlight(pc, raw, at) == [pc |-> pc, raw |-> raw, at |-> at]

Idle == InFlight("idle", NullWindow, 0)

RateAuxParked ==
  /\ testEnv = FALSE
  /\ routed = NoRouted
  /\ rlAllowedAt = <<>>
  /\ rlInFlight = [p \in Racers |-> Idle]

RateParked ==
  /\ rlKv = [c \in RlClients |-> NullWindow]
  /\ rlResp = NoResp
  /\ rlSeenStart = -1
  /\ rlSeenCount = 0
  /\ rlLastReject = -1
  /\ RateAuxParked

\* stored values the check treats as no window: absent, not JSON, a count
\* that is not a finite number, a negative count, a resetAt that is not finite
RateInitKv ==
  {NullWindow, RawWindow("corrupt", 0, 0, 0),
   RawWindow("json", -1, RATE_LIMIT_WINDOW_MS, RATE_LIMIT_WINDOW_MS),
   RawWindow("json", -2, RATE_LIMIT_WINDOW_MS, RATE_LIMIT_WINDOW_MS),
   RawWindow("json", 3, -1, RATE_LIMIT_WINDOW_MS)}

RateInit ==
  /\ rlKv \in [RlClients -> RateInitKv]
  /\ rlResp = NoResp
  /\ rlSeenStart = -1
  /\ rlSeenCount = 0
  /\ rlLastReject = -1
  /\ RateAuxParked

\* fetch handler, lines 1510-1521, for a GET on a public path by client c,
\* the whole check running before the client's next request
RateLimitedGet(c) ==
  LET r == checkRateLimit(rlKv[c], now)
      newWindow == rlSeenStart = -1 \/ now >= rlSeenStart + RATE_LIMIT_WINDOW_MS
  IN /\ rlKv' = [rlKv EXCEPT ![c] = r.put]
     /\ rlResp' = [status |-> IF r.allowed THEN 200 ELSE 429,
                   allowed |-> r.allowed,
                   retryAfter |-> r.retryAfter,
                   at |-> now]
     /\ rlSeenStart' = IF newWindow THEN now ELSE rlSeenStart
     /\ rlSeenCount' = IF newWindow THEN 1
                       ELSE IF rlSeenCount > RATE_LIMIT_MAX_REQUESTS THEN rlSeenCount
                       ELSE rlSeenCount + 1
     /\ rlLastReject' = IF r.allowed THEN rlLastReject ELSE now
     /\ UNCHANGED <<testEnv, routed, rlInFlight>>

\* the store drops a key at some time after its expirationTtl has passed
RateKeyExpires(c) ==
  /\ rlKv[c].kind # "null"
  /\ now >= rlKv[c].expiresAt
  /\ rlKv' = [rlKv EXCEPT ![c] = NullWindow]
  /\ UNCHANGED <<rlResp, rlSeenStart, rlSeenCount, rlLastReject, rateAux>>

RateNext ==
  \/ \E c \in RlClients :
       RateLimitedGet(c) /\ UNCHANGED rlAllowedAt /\ UNCHANGED clockVars /\ RateFrame
  \/ \E c \in RlClients : RateKeyExpires(c) /\ UNCHANGED clockVars /\ RateFrame
  \/ \E d \in TickSteps : Tick(d) /\ UNCHANGED rateVars /\ RateFrame

\* C2: for one client issuing requests one after another, starting with no
\* usable stored window, the first N requests of a 60 s window are allowed,
\* every later request before the window's resetAt is answered 429 with
\* Retry-After >= 1, and the first request at or after resetAt is allowed.
C2_WindowBoundary ==
  rlResp.status # 0 =>
    /\ rlResp.allowed <=> rlSeenCount <= RATE_LIMIT_MAX_REQUESTS
    /\ rlResp.allowed => rlResp.status = 200
    /\ ~rlResp.allowed => rlResp.status = 429 /\ rlResp.retryAfter >= 1

\* C2 witness: a window was filled and the (N+1)th request rejected, and the
\* first request after its resetAt was allowed again.
C2_Witness ==
  /\ rlResp.allowed
  /\ rlSeenCount = 1
  /\ rlLastReject >= 0
  /\ rlSeenStart = rlLastReject + 1
  /\ \E c \in RlClients : rlKv[c].kind = "json" /\ rlKv[c].count = 1

\* a stored value that holds no window in force at time t: missing, not
\* JSON, expired, or with a count that is not a finite number or is negative
NoWindowInForce(raw, t) ==
  \/ raw.kind \in {"null", "corrupt"}
  \/ raw.resetAt # -1 /\ raw.resetAt <= t
  \/ raw.count = -1
  \/ raw.count < 0

\* C19: a check that finds no window in force (the key missing, its value
\* unparseable, the window expired, the count not finite or negative) allows
\* the request with status 200 and stores the window {count 1, resetAt now +
\* 60 s}.
C19_FreshWindow ==
  [][\A c \in RlClients :
       (RateLimitedGet(c) /\ NoWindowInForce(rlKv[c], now))
         => /\ rlResp'.allowed /\ rlResp'.status = 200
            /\ rlKv'[c].kind = "json"
            /\ rlKv'[c].count = 1
            /\ rlKv'[c].resetAt = now + RATE_LIMIT_WINDOW_MS]_vars

\* a request made a full window length or more after the start of the run,
\* with no rejection before it, found an expired or dropped window and opened
\* a new one
C19_Witness ==
  /\ rlResp.allowed /\ rlResp.status = 200
  /\ rlResp.at >= RATE_LIMIT_WINDOW_MS
  /\ rlLastReject = -1
  /\ \E c \in RlClients :
       /\ rlKv[c].kind = "json" /\ rlKv[c].count = 1
       /\ rlKv[c].resetAt = rlResp.at + RATE_LIMIT_WINDOW_MS

\* C20: a rejected check stores the window with the count and the resetAt it
\* found, and answers as retryAfter the least whole number of seconds, at
\* least 1, that reaches resetAt.
C20_RejectionKeepsWindow ==
  [][\A c \in RlClients :
       (RateLimitedGet(c) /\ ~rlResp'.allowed)
         => /\ rlKv[c].kind = "json" /\ rlKv'[c].kind = "json"
            /\ rlKv'[c].count = rlKv[c].count
            /\ rlKv'[c].resetAt = rlKv[c].resetAt
            /\ rlResp'.retryAfter >= 1
            /\ rlResp'.retryAfter * 1000 >= rlKv[c].resetAt - now
            /\ rlResp'.retryAfter > 1
                 => (rlResp'.retryAfter - 1) * 1000 < rlKv[c].resetAt - now]_vars

\* a rejection one second into a full window: the window is stored as it was
\* and retryAfter is 59
C20_Witness ==
  /\ rlResp.status = 429
  /\ rlResp.at = rlSeenStart + 1000
  /\ rlResp.retryAfter = RATE_LIMIT_WINDOW_SEC - 1
  /\ \E c \in RlClients :
       /\ rlKv[c].count = RATE_LIMIT_MAX_REQUESTS
       /\ rlKv[c].resetAt = rlSeenStart + RATE_LIMIT_WINDOW_MS

(***************************************************************************)
(* Bursts: the allowed requests of one client over a sliding span          *)
(***************************************************************************)
\* the times in log that lie less than one window length before t
Recent(log, t) == SelectSeq(log, LAMBDA u : t - u < RATE_LIMIT_WINDOW_MS)

\* a rate-limited GET, and the observer's log of the allowed ones
BurstGet(c) ==
  /\ RateLimitedGet(c)
  /\ rlAllowedAt' = IF rlResp'.allowed THEN Append(Recent(rlAllowedAt, now), now)
                    ELSE Recent(rlAllowedAt, now)

BurstTickSteps == {1, RATE_LIMIT_WINDOW_MS - 1}

BurstTick(d) ==
  /\ Tick(d)
  /\ rlAllowedAt' = Recent(rlAllowedAt, now')
  /\ UNCHANGED <<rlKv, rlResp, rlSeenStart, rlSeenCount, rlLastReject, testEnv, routed,
                 rlInFlight>>

BurstNext ==
  \/ \E c \in RlClients : BurstGet(c) /\ UNCHANGED clockVars /\ RateFrame
  \/ \E c \in RlClients : RateKeyExpires(c) /\ UNCHANGED clockVars /\ RateFrame
  \/ \E d \in BurstTickSteps : BurstTick(d) /\ RateFrame

\* C22: with the requests of one client processed one after another, the
\* allowed requests inside any time span shorter than one window length
\* number at most 2N-1 (the log holds the allowed requests of the span that
\* ends now and is shorter than W, so every such span ending at a request is
\* covered).
C22_BurstBound == Len(rlAllowedAt) <= 2 * RATE_LIMIT_MAX_REQUESTS - 1

\* C22 witness: 2N-1 requests allowed within less than W, N-1 of them in one
\* window and N in the next
C22_Witness ==
  /\ Len(rlAllowedAt) = 2 * RATE_LIMIT_MAX_REQUESTS - 1
  /\ rlAllowedAt[1] < rlSeenStart
  /\ rlAllowedAt[RATE_LIMIT_MAX_REQUESTS - 1] < rlSeenStart
  /\ rlAllowedAt[RATE_LIMIT_MAX_REQUESTS] = rlSeenStart
  /\ now - rlAllowedAt[1] < RATE_LIMIT_WINDOW_MS
  /\ rlResp.allowed

(***************************************************************************)
(* Concurrent checks: the get and the put of checkRateLimit are two steps  *)
(***************************************************************************)
\* the stored window a decision was made on: start of its 60 s, -1 if none
WindowStart(raw) == IF raw.kind = "json" THEN raw.resetAt - RATE_LIMIT_WINDOW_MS ELSE -1

\* lines 534-535: Date.now() and the get of the client's key
RaceRead(p, c) ==
  /\ rlInFlight[p].pc = "idle"
  /\ rlInFlight' = [rlInFlight EXCEPT ![p] = InFlight("read", rlKv[c], now)]
  /\ UNCHANGED <<rlKv, rlResp, rlSeenStart, rlSeenCount, rlLastReject, testEnv, routed,
                 rlAllowedAt>>

RaceWrite_reread(p, c) ==
  /\ rlInFlight[p].pc = "read"
  /\ \E r \in {checkRateLimit(rlKv[c], rlInFlight[p].at)} :
       /\ rlKv' = [rlKv EXCEPT ![c] = [r.put EXCEPT !.expiresAt = now + RATE_LIMIT_WINDOW_MS]]
       /\ rlResp' = [status |-> IF r.allowed THEN 200 ELSE 429,
                     allowed |-> r.allowed,
                     retryAfter |-> r.retryAfter,
                     at |-> rlInFlight[p].at]
       /\ rlSeenStart' = IF r.allowed THEN WindowStart(r.put) ELSE rlSeenStart
       /\ rlSeenCount' = IF ~r.allowed THEN rlSeenCount
                         ELSE IF WindowStart(r.put) # rlSeenStart THEN 1
                         ELSE IF rlSeenCount > RATE_LIMIT_MAX_REQUESTS THEN rlSeenCount
                         ELSE rlSeenCount + 1
       /\ rlLastReject' = IF r.allowed THEN rlLastReject ELSE rlInFlight[p].at
  /\ rlInFlight' = [rlInFlight EXCEPT ![p] = Idle]
  /\ UNCHANGED <<testEnv, routed, rlAllowedAt>>

\* lines 536-552: the decision on the value read, and the put.  The observer
\* counts the requests allowed on one stored window (rlSeenStart is the start
\* of that window, rlSeenCount is capped at N+1).
RaceWrite(p, c) ==
  /\ rlInFlight[p].pc = "read"
  /\ \E r \in {checkRateLimit(rlInFlight[p].raw, rlInFlight[p].at)} :
       /\ rlKv' = [rlKv EXCEPT ![c] = [r.put EXCEPT !.expiresAt = now + RATE_LIMIT_WINDOW_MS]]
       /\ rlResp' = [status |-> IF r.allowed THEN 200 ELSE 429,
                     allowed |-> r.allowed,
                     retryAfter |-> r.retryAfter,
                     at |-> rlInFlight[p].at]
       /\ rlSeenStart' = IF r.allowed THEN WindowStart(r.put) ELSE rlSeenStart
       /\ rlSeenCount' = IF ~r.allowed THEN rlSeenCount
                         ELSE IF WindowStart(r.put) # rlSeenStart THEN 1
                         ELSE IF rlSeenCount > RATE_LIMIT_MAX_REQUESTS THEN rlSeenCount
                         ELSE rlSeenCount + 1
       /\ rlLastReject' = IF r.allowed THEN rlLastReject ELSE rlInFlight[p].at
  /\ rlInFlight' = [rlInFlight EXCEPT ![p] = Idle]
  /\ UNCHANGED <<testEnv, routed, rlAllowedAt>>

RaceTick == ticks < MaxTicks - 3 /\ Tick(RATE_LIMIT_WINDOW_MS - 1)

RaceNext ==
  \/ \E p \in Racers, c \in RlClients : RaceRead(p, c) /\ UNCHANGED clockVars /\ RateFrame
  \/ \E p \in Racers, c \in RlClients : RaceWrite(p, c) /\ UNCHANGED clockVars /\ RateFrame
  \/ RaceTick /\ UNCHANGED rateVars /\ RateFrame

\* a stored value that holds a window in force at time t: a count of zero or
\* more and a resetAt later than t
WindowInForce(raw, t) ==
  /\ raw.kind = "json"
  /\ raw.count >= 0
  /\ raw.resetAt > t

\* a step in which some execution completes its check
RaceWriteStep ==
  \E p \in Racers : rlInFlight[p].pc = "read" /\ rlInFlight'[p].pc = "idle"

\* C29: when requests of one client run the check concurrently, each is
\* decided on the value it read, whatever the store holds by then: it is
\* allowed exactly when that value holds no window in force or a count below
\* N, and the stored count after its put is the count it read plus one (1
\* when it read no window in force), or the count it read when rejected; so
\* the stored count never counts the writes made in between (the witness
\* reaches more than N allowed requests on one window).
C29_LastWriterWins ==
  [][\A p \in Racers, c \in RlClients :
       (rlInFlight[p].pc = "read" /\ rlInFlight'[p].pc = "idle")
         => \A found \in {IF WindowInForce(rlInFlight[p].raw, rlInFlight[p].at)
                             THEN rlInFlight[p].raw.count ELSE 0} :
              /\ rlResp'.allowed <=> found < RATE_LIMIT_MAX_REQUESTS
              /\ rlKv'[c].kind = "json"
              /\ rlKv'[c].count = IF rlResp'.allowed THEN found + 1 ELSE found
              /\ rlKv'[c].count <= RATE_LIMIT_MAX_REQUESTS]_vars

\* C29 witness: more than N requests were allowed on one stored window, the
\* last of them decided on a value that the store no longer held, and the
\* stored count is below the number of requests allowed
C29_Witness ==
  /\ rlSeenCount > RATE_LIMIT_MAX_REQUESTS
  /\ rlResp.allowed
  /\ \A c \in RlClients :
       /\ rlKv[c].kind = "json"
       /\ WindowStart(rlKv[c]) = rlSeenStart
       /\ rlKv[c].count < rlSeenCount
       /\ now < rlKv[c].resetAt
  /\ \A p \in Racers : rlInFlight[p].pc = "idle"

(***************************************************************************)
(* Concurrent checks of several clients, from an empty store               *)
(***************************************************************************)
ManyClients == {1, 2}

\* the executions, each with the client whose request it serves: two that
\* may overlap for client 1, one for client 2
ClientRacers == {<<1, 1>>, <<2, 1>>, <<1, 2>>}

EmptyStoreInit ==
  /\ rlKv = [c \in ManyClients |-> NullWindow]
  /\ rlInFlight = [e \in ClientRacers |-> Idle]
  /\ rlResp = NoResp
  /\ rlSeenStart = -1
  /\ rlSeenCount = 0
  /\ rlLastReject = -1
  /\ testEnv = FALSE
  /\ routed = NoRouted
  /\ rlAllowedAt = <<>>

\* lines 536-552 for execution e: the decision on the value read, the put
\* under the key of its client, and the answer
ManyWrite(e) ==
  /\ rlInFlight[e].pc = "read"
  /\ \E r \in {checkRateLimit(rlInFlight[e].raw, rlInFlight[e].at)} :
       /\ rlKv' = [rlKv EXCEPT ![e[2]] = [r.put EXCEPT !.expiresAt = now + RATE_LIMIT_WINDOW_MS]]
       /\ rlResp' = [status |-> IF r.allowed THEN 200 ELSE 429,
                     allowed |-> r.allowed,
                     retryAfter |-> r.retryAfter,
                     at |-> rlInFlight[e].at]
  /\ rlInFlight' = [rlInFlight EXCEPT ![e] = Idle]
  /\ UNCHANGED <<rlSeenStart, rlSeenCount, rlLastReject, testEnv, routed, rlAllowedAt>>

\* the clock moves from the first window to the start of the next one
ManyTick == now < RATE_LIMIT_WINDOW_MS /\ Tick(RATE_LIMIT_WINDOW_MS)

ManyNext ==
  \/ \E e \in ClientRacers : RaceRead(e, e[2]) /\ UNCHANGED clockVars /\ RateFrame
  \/ \E e \in ClientRacers : ManyWrite(e) /\ UNCHANGED clockVars /\ RateFrame
  \/ \E c \in ManyClients : RateKeyExpires(c) /\ UNCHANGED clockVars /\ RateFrame
  \/ ManyTick /\ UNCHANGED rateVars /\ RateFrame

\* C31: starting from an empty store, under every interleaving of the
\* requests of several clients, every stored rate-limit window holds a count
\* that is an integer between 1 and N inclusive.
C31_StoredCount ==
  \A c \in ManyClients :
    rlKv[c].kind # "null"
      => /\ rlKv[c].kind = "json"
         /\ rlKv[c].count \in 1..RATE_LIMIT_MAX_REQUESTS

\* C31 witness: a request has just been rejected on a full window of client
\* 1, stored with the count N, while client 2 holds a window of its own with
\* a lower count and an execution of client 1 is between its get and its put
C31_Witness ==
  /\ rlKv[1].kind = "json" /\ rlKv[1].count = RATE_LIMIT_MAX_REQUESTS
  /\ rlKv[2].kind = "json" /\ rlKv[2].count < RATE_LIMIT_MAX_REQUESTS
  /\ rlResp.status = 429
  /\ rlInFlight[<<1, 1>>].pc = "read"

(***************************************************************************)
(* The fetch handler's gate in front of the rate limiter                   *)
(***************************************************************************)
Methods == {"GET", "POST", "OPTIONS"}

\* A request path as the sequence of its segments: <<>> is the root path "/".
Paths ==
  {<<>>, <<"status">>, <<"heartbeat">>, <<"metrics">>, <<"set-presence">>,
   <<"admin", "tasks">>, <<"administrators">>}

\* pathname.startsWith("/admin"): the first segment begins with "admin"
startsWithAdmin(path) == path # <<>> /\ path[1] \in {"admin", "administrators"}

isPublicGetEndpoint_adminOpen(path) ==
  path # <<"set-presence">> /\ path # <<"metrics">>

\* lines 521-523
isPublicGetEndpoint(path) ==
  path # <<"set-presence">> /\ path # <<"metrics">> /\ ~startsWithAdmin(path)

\* A request: credential is what the route's own check finds ("unset": the
\* expected secret is not configured; "wrong"; "right"), valid is whether the
\* body passes the route's validation.
Request(method, path, credential, valid) ==
  [method |-> method, path |-> path, credential |-> credential, valid |-> valid]

Requests ==
  {Request(m, p, k, TRUE) : m \in Methods, p \in Paths, k \in {"wrong", "right"}}
    \cup {Request("POST", p, "right", FALSE) :
            p \in {<<"set-presence">>, <<"heartbeat">>, <<"admin", "tasks">>}}
    \cup {Request("GET", <<"metrics">>, "unset", TRUE)}

\* lines 684-688
isAuthorized(req) == req.credential = "right"

\* The status the route handlers answer a request that passed the gate,
\* lines 1524-2230; an exception escaping the handler is a 500.
dispatch(req) ==
  IF req.path \in {<<"set-presence">>, <<"heartbeat">>} /\ req.method = "POST"
    THEN IF ~isAuthorized(req) THEN 401 ELSE IF ~req.valid THEN 400 ELSE 200
  ELSE IF req.path = <<"status">>
    THEN IF req.method # "GET" THEN 405 ELSE 200
  ELSE IF req.path = <<"metrics">>
    THEN IF req.method # "GET" THEN 405
         ELSE IF req.credential = "unset" THEN 503
         ELSE IF req.credential = "wrong" THEN 401 ELSE 200
  ELSE IF req.path = <<"admin", "tasks">>
    THEN IF ~isAuthorized(req) THEN 401
         ELSE IF req.method = "GET" THEN 200
         ELSE IF req.valid THEN 200 ELSE 500
  ELSE 404

\* fetch handler, lines 1477-2230, as far as the client's window key and the
\* answered status go: OPTIONS is answered at once, a GET on a public path
\* outside the test environment runs the rate-limit check, and a request that
\* is let through is answered by its route.
Fetch(c, req) ==
  LET checked == /\ req.method # "OPTIONS"
                 /\ req.method = "GET"
                 /\ isPublicGetEndpoint(req.path)
                 /\ ~testEnv
      r == checkRateLimit(rlKv[c], now)
      status == IF req.method = "OPTIONS" THEN 200
                ELSE IF checked /\ ~r.allowed THEN 429
                ELSE dispatch(req)
  IN /\ rlKv' = IF checked THEN [rlKv EXCEPT ![c] = r.put] ELSE rlKv
     /\ routed' = Routed(~routed.odd, req.method, req.path,
                         IF checked THEN 1 ELSE 0, IF checked THEN 1 ELSE 0, status)
     /\ UNCHANGED <<rlResp, rlSeenStart, rlSeenCount, rlLastReject, testEnv, rlAllowedAt,
                    rlInFlight>>

\* stored windows at the start: no usable window, or a window in force that
\* is one request short of full, or full
RouteInitKv ==
  {NullWindow, RawWindow("corrupt", 0, 0, 0)} \cup
  {RawWindow("json", n, RATE_LIMIT_WINDOW_MS, RATE_LIMIT_WINDOW_MS) :
     n \in {RATE_LIMIT_MAX_REQUESTS - 1, RATE_LIMIT_MAX_REQUESTS}}

RouteInit ==
  /\ rlKv \in [RlClients -> RouteInitKv]
  /\ rlResp = NoResp
  /\ rlSeenStart = -1
  /\ rlSeenCount = 0
  /\ rlLastReject = -1
  /\ testEnv \in BOOLEAN
  /\ routed = NoRouted
  /\ rlAllowedAt = <<>>
  /\ rlInFlight = [p \in Racers |-> Idle]

\* the clock moves past the end of a window once in a run
RouteTick == ticks < MaxTicks - 3 /\ Tick(RATE_LIMIT_WINDOW_MS)

RouteNext ==
  \/ \E c \in RlClients, req \in Requests :
       Fetch(c, req) /\ UNCHANGED clockVars /\ RateFrame
  \/ \E c \in RlClients : RateKeyExpires(c) /\ UNCHANGED clockVars /\ RateFrame
  \/ RouteTick /\ UNCHANGED rateVars /\ RateFrame

\* a step of the fetch handler
FetchStep == routed'.odd # routed.odd

\* the requests the statement exempts: the root path, the metrics path, admin
\* paths, and every request that is not a GET
ExemptAsStated(req) ==
  \/ req.method # "GET"
  \/ req.path \in {<<>>, <<"metrics">>}
  \/ startsWithAdmin(req.path)

Untouched ==
  /\ rlKv' = rlKv
  /\ routed'.reads = 0 /\ routed'.writes = 0
  /\ routed'.status # 429

\* C21 as stated: requests to the root path, to the metrics path and to admin
\* paths, and all non-GET requests, never read or write a rate-limit window
\* and are never answered 429.
C21_RootExempt ==
  [][(FetchStep /\ ExemptAsStated(routed')) => Untouched]_vars

\* C21: a request that is not a GET, and a GET on /metrics, on /set-presence
\* or on a path that begins with /admin, never reads or writes a rate-limit
\* window and is never answered 429; outside the test environment every
\* other GET, the one on the root path included, reads and writes the
\* client's window once and is answered 429 exactly when the window in force
\* is full.
C21_GateScope ==
  [][FetchStep =>
       IF \/ routed'.method # "GET"
          \/ routed'.path \in {<<"metrics">>, <<"set-presence">>}
          \/ startsWithAdmin(routed'.path)
          \/ testEnv
         THEN Untouched
         ELSE /\ routed'.reads = 1 /\ routed'.writes = 1
              /\ \A c \in RlClients :
                   /\ rlKv'[c].kind = "json"
                   /\ routed'.status = 429
                        <=> currentWindow(rlKv[c], now).count >= RATE_LIMIT_MAX_REQUESTS]_vars

\* a GET on the root path answered 429, and the window it found full is
\* stored
C21_Witness ==
  /\ routed.method = "GET" /\ routed.path = <<>>
  /\ routed.status = 429 /\ routed.reads = 1
  /\ ~testEnv
  /\ \E c \in RlClients : rlKv[c].count = RATE_LIMIT_MAX_REQUESTS

(***************************************************************************)
(* Cached datasets: registry, changelog, GitHub stats, GitHub events,      *)
(* CI trend, tasks                                                         *)
(*                                                                         *)
(* The actions of this part are the read paths of requests the rate        *)
(* limiter has let through; the limiter is the component above.            *)
(***************************************************************************)
Repos == {1, 2}

\* A raw KV value: kind "null" (key absent), "corrupt" (a string JSON.parse
\* rejects) or "json" with the value v it decodes to (a sequence).
Raw(kind, v) == [kind |-> kind, v |-> v]
Absent == Raw("null", <<>>)
Corrupt == Raw("corrupt", <<>>)
stringify(v) == Raw("json", v)

\* The result of a parse: ok = FALSE is the code's null
Parsed(ok, v) == [ok |-> ok, v |-> v]
ParseNull == Parsed(FALSE, <<>>)

\* How an upstream call ends: "ok", a non-2xx response, a rejected fetch, or a
\* body that makes res.json() / JSON.parse throw
UpFailures == {"non2xx", "neterr", "throw"}
UpOutcomes == {"ok"} \cup UpFailures

\* A registry item as it comes from upstream: repo is the repo identifier
\* lower-cased, upper tells a spelling with capitals, valid is FALSE for an
\* item normalizeRegistryEntry rejects.
Item(repo, upper, valid) == [repo |-> repo, upper |-> upper, valid |-> valid]

RECURSIVE SortByRepo(_, _)
SortByRepo(items, ids) ==
  IF ids = {} THEN <<>>
  ELSE LET lo == CHOOSE r \in ids : \A q \in ids : r <= q
           i == CHOOSE k \in DOMAIN items : items[k].repo = lo
       IN <<items[i]>> \o SortByRepo(items, ids \ {lo})

extractRegistryEntries_lastWins(payload) ==
  LET kept == {i \in DOMAIN payload :
                 /\ payload[i].valid
                 /\ \A j \in DOMAIN payload :
                      j > i => ~(payload[j].valid /\ payload[j].repo = payload[i].repo)}
      lasts == [i \in DOMAIN payload |->
                IF i \in kept THEN payload[i] ELSE Item(0, FALSE, FALSE)]
  IN SortByRepo(lasts, {payload[i].repo : i \in kept})

\* lines 825-849: drop invalid items, keep the first item of each
\* case-insensitive repo, sort by repo
extractRegistryEntries(payload) ==
  LET kept == {i \in DOMAIN payload :
                 /\ payload[i].valid
                 /\ \A j \in DOMAIN payload :
                      j < i => ~(payload[j].valid /\ payload[j].repo = payload[i].repo)}
      firsts == [i \in DOMAIN payload |->
                 IF i \in kept THEN payload[i] ELSE Item(0, FALSE, FALSE)]
  IN SortByRepo(firsts, {payload[i].repo : i \in kept})

parseRegistryEntries_corruptEmpty(raw) ==
  IF raw.kind = "json" THEN Parsed(TRUE, extractRegistryEntries(raw.v))
  ELSE IF raw.kind = "corrupt" THEN Parsed(TRUE, <<>>)
  ELSE ParseNull

\* lines 851-858
parseRegistryEntries(raw) ==
  IF raw.kind = "json" THEN Parsed(TRUE, extractRegistryEntries(raw.v)) ELSE ParseNull

RegistryPayloads ==
  {<<>>,
   <<Item(2, FALSE, TRUE), Item(1, TRUE, TRUE)>>,
   <<Item(1, FALSE, TRUE), Item(1, TRUE, TRUE), Item(2, FALSE, FALSE)>>}

\* what the registry keys can hold: nothing, a value that does not parse, or
\* entries the loader wrote (lines 880-885)
RegistryInitKv ==
  {Absent, Corrupt} \cup {stringify(extractRegistryEntries(p)) : p \in RegistryPayloads}

loadRegistryEntries_stalePreferred(primary, stale, up, payload) ==
  LET cachedEntries == parseRegistryEntries(primary)
      staleEntries == parseRegistryEntries(stale)
      entries == extractRegistryEntries(payload)
  IN IF cachedEntries.ok
       THEN [entries |-> IF staleEntries.ok THEN staleEntries.v ELSE cachedEntries.v,
             cached |-> TRUE, calls |-> 0, primary |-> primary, stale |-> stale]
     ELSE IF up = "ok"
       THEN [entries |-> entries, cached |-> FALSE, calls |-> 1,
             primary |-> stringify(entries), stale |-> stringify(entries)]
     ELSE [entries |-> IF staleEntries.ok THEN staleEntries.v ELSE <<>>,
           cached |-> FALSE, calls |-> 1,
           primary |-> primary, stale |-> stale]

loadRegistryEntries_retry(primary, stale, up, payload) ==
  LET cachedEntries == parseRegistryEntries(primary)
      staleEntries == parseRegistryEntries(stale)
      entries == extractRegistryEntries(payload)
  IN IF cachedEntries.ok
       THEN [entries |-> cachedEntries.v, cached |-> TRUE, calls |-> 0,
             primary |-> primary, stale |-> stale]
     ELSE IF up = "ok"
       THEN [entries |-> entries, cached |-> FALSE, calls |-> 1,
             primary |-> stringify(entries), stale |-> stringify(entries)]
     ELSE [entries |-> IF staleEntries.ok THEN staleEntries.v ELSE <<>>,
           cached |-> FALSE, calls |-> 2,
           primary |-> primary, stale |-> stale]

\* lines 860-891.  A response without a usable content field takes the same
\* return as a non-2xx one.
loadRegistryEntries(primary, stale, up, payload) ==
  LET cachedEntries == parseRegistryEntries(primary)
      staleEntries == parseRegistryEntries(stale)
      entries == extractRegistryEntries(payload)
  IN IF cachedEntries.ok
       THEN [entries |-> cachedEntries.v, cached |-> TRUE, calls |-> 0,
             primary |-> primary, stale |-> stale]
     ELSE IF up = "ok"
       THEN [entries |-> entries, cached |-> FALSE, calls |-> 1,
             primary |-> stringify(entries), stale |-> stringify(entries)]
     ELSE [entries |-> IF staleEntries.ok THEN staleEntries.v ELSE <<>>,
           cached |-> FALSE, calls |-> 1,
           primary |-> primary, stale |-> stale]

\* lines 893-922: the loader behind /tools, /tools/search and /tools/<repo>
loadToolsRegistryEntries(primary, stale, up, payload) ==
  LET cachedEntries == parseRegistryEntries(primary)
      entries == extractRegistryEntries(payload)
  IN IF cachedEntries.ok
       THEN [entries |-> cachedEntries.v, cached |-> TRUE, calls |-> 0,
             primary |-> primary, stale |-> stale]
     ELSE IF up = "ok"
       THEN [entries |-> entries, cached |-> FALSE, calls |-> 1,
             primary |-> stringify(entries), stale |-> stale]
     ELSE [entries |-> <<>>, cached |-> FALSE, calls |-> 1,
           primary |-> primary, stale |-> stale]

\* what a read path answered: the request's inputs (the upstream outcome up,
\* the raw primary and stale values it found) and its result.  status 500 is
\* a fetch handler that threw.
Response(path, up, primary, stale, status, body, calls) ==
  [path |-> path, up |-> up, primary |-> primary, stale |-> stale,
   status |-> status, body |-> body, calls |-> calls, n |-> resp.n + 1]

NoResponse ==
  [path |-> "none", up |-> "ok", primary |-> Absent, stale |-> Absent,
   status |-> 0, body |-> <<>>, calls |-> 0, n |-> 0]

CacheParked ==
  /\ ghToken = "set"
  /\ regKv = Absent /\ regStaleKv = Absent
  /\ chgKv = Absent /\ statsKv = Absent /\ eventsKv = Absent
  /\ trendKv = [r \in Repos |-> Absent]
  /\ resp = NoResponse

\* GET /tools (lines 2035-2054)
GetTools(up, payload) ==
  \E r \in {loadToolsRegistryEntries(regKv, regStaleKv, up, payload)} :
    /\ regKv' = r.primary
    /\ regStaleKv' = r.stale
    /\ resp' = Response("tools", up, regKv, regStaleKv, 200, r.entries, r.calls)
    /\ UNCHANGED <<ghToken, chgKv, statsKv, eventsKv, trendKv>>

\* lines 1340-1351: name of the repos served as projects (every entry here is
\* taken as core or critical)
registryEntriesToProjects(entries) == [i \in DOMAIN entries |-> entries[i].repo]

\* GET /projects (lines 1989-2006) and GET /fleet/summary (lines 1794-1847):
\* both serve loadRegistryEntries
GetRegistryView(path, up, payload) ==
  \E r \in {loadRegistryEntries(regKv, regStaleKv, up, payload)} :
    /\ path \in {"projects", "summary"}
    /\ regKv' = r.primary
    /\ regStaleKv' = r.stale
    /\ resp' = Response(path, up, regKv, regStaleKv, 200,
                        IF path = "projects" THEN registryEntriesToProjects(r.entries)
                        ELSE r.entries, r.calls)
    /\ UNCHANGED <<ghToken, chgKv, statsKv, eventsKv, trendKv>>

\* lines 956-975: the open tasks of a repo, <<>> when the call fails
loadRepoTasks(up) == IF up = "ok" THEN <<1>> ELSE <<>>

\* GET /tasks (lines 2101-2119): one TASKS.md call per registry entry
GetTasks(up, payload, repoUp) ==
  \E r \in {loadRegistryEntries(regKv, regStaleKv, up, payload)} :
    /\ regKv' = r.primary
    /\ regStaleKv' = r.stale
    /\ resp' = Response("tasks", up, regKv, regStaleKv, 200,
                        [i \in DOMAIN r.entries |->
                           [repo |-> r.entries[i].repo,
                            tasks |-> loadRepoTasks(repoUp[r.entries[i].repo])]],
                        r.calls + Len(r.entries))
    /\ UNCHANGED <<ghToken, chgKv, statsKv, eventsKv, trendKv>>

\* slice(0, n) of a sequence
Slice(seq, n) == SubSeq(seq, 1, IF Len(seq) < n THEN Len(seq) ELSE n)

\* lines 690-740 applied along lines 747-750 and 771-774: the first ten
\* entries, without those normalizeChangelogEntry rejects (written 0 here)
CHANGELOG_LIMIT == 10
normalizeChangelog(body) == SelectSeq(Slice(body, CHANGELOG_LIMIT), LAMBDA e : e # 0)

\* lines 742-754
parseChangelogEntries(raw) ==
  IF raw.kind = "json" THEN Parsed(TRUE, normalizeChangelog(raw.v)) ELSE ParseNull

ChangelogPayloads == {<<>>, <<1, 2>>, <<1, 0, 3>>}
ChangelogInitKv == {Absent, Corrupt} \cup {stringify(p) : p \in ChangelogPayloads}

\* The result of a loader whose upstream call is not inside a try block:
\* threw = TRUE when the rejection leaves the loader and, there being no catch
\* in the fetch handler either, the handler.
Loaded(threw, body, kv, calls) == [threw |-> threw, body |-> body, kv |-> kv, calls |-> calls]

\* lines 756-781
loadChangelog(raw, up, body) ==
  LET cached == parseChangelogEntries(raw)
  IN IF cached.ok THEN Loaded(FALSE, cached.v, raw, 0)
     ELSE IF up \in {"neterr", "throw"} THEN Loaded(TRUE, <<>>, raw, 1)
     ELSE IF up = "non2xx" THEN Loaded(FALSE, <<>>, raw, 1)
     ELSE Loaded(FALSE, normalizeChangelog(body), stringify(normalizeChangelog(body)), 1)

\* the status of a response whose handler ran to its return statement, or threw
StatusOf(threw) == IF threw THEN 500 ELSE 200

\* GET /changelog (lines 2189-2211): without a credential (after trim) the
\* answer is an empty list and neither the cache nor upstream is consulted
GetChangelog(up, body) ==
  \E r \in {IF ghToken # "set" THEN Loaded(FALSE, <<>>, chgKv, 0)
           ELSE loadChangelog(chgKv, up, body)} :
    /\ chgKv' = r.kv
    /\ resp' = Response("changelog", up, chgKv, Absent, StatusOf(r.threw), r.body, r.calls)
    /\ UNCHANGED <<ghToken, regKv, regStaleKv, statsKv, eventsKv, trendKv>>

\* GitHub stats payload <<repoCount, totalStars>>; a repos listing is the
\* sequence of the repos' star counts, user the account's public_repos
StatsDefault == <<0, 0>>
RECURSIVE SumSeq(_)
SumSeq(seq) == IF seq = <<>> THEN 0 ELSE Head(seq) + SumSeq(Tail(seq))

StatsInitKv == {Absent, Corrupt, stringify(<<2, 5>>)}
StarsListings == {<<>>, <<2, 3>>}

\* lines 1361-1411.  JSON.parse of a cached value is returned as it is; both
\* upstream calls are awaited outside any try block; the payload is written
\* whatever the calls returned.
loadGithubStats(raw, upUser, upRepos, user, stars) ==
  LET repos == IF upRepos = "ok" THEN stars ELSE <<>>
      repoCount == IF upUser = "ok" THEN user ELSE Len(repos)
      payload == <<repoCount, SumSeq(repos)>>
  IN IF raw.kind = "json" THEN Loaded(FALSE, raw.v, raw, 0)
     ELSE IF upUser \in {"neterr", "throw"} \/ upRepos \in {"neterr", "throw"}
       THEN Loaded(TRUE, StatsDefault, raw, 2)
     ELSE Loaded(FALSE, payload, stringify(payload), 2)

\* GET /github/stats (lines 2169-2179)
GetGithubStats(upUser, upRepos, user, stars) ==
  \E r \in {loadGithubStats(statsKv, upUser, upRepos, user, stars)} :
    /\ statsKv' = r.kv
    /\ resp' = Response("stats", IF upUser = "ok" THEN upRepos ELSE upUser,
                        statsKv, Absent, StatusOf(r.threw), r.body, r.calls)
    /\ UNCHANGED <<ghToken, regKv, regStaleKv, chgKv, eventsKv, trendKv>>

\* GitHub events: an upstream event is 0 when its type is not one of the four
\* served types, else the number of the event; at most 15 are served
EVENTS_LIMIT == 15
toEvents(raw) == Slice(SelectSeq(raw, LAMBDA e : e # 0), EVENTS_LIMIT)
EventsPayloads == {<<>>, <<1, 0, 2>>}
EventsInitKv == {Absent, Corrupt, stringify(<<1>>)}

\* loadGithubEvents
loadGithubEvents(raw, up, body) ==
  IF raw.kind = "json" THEN Loaded(FALSE, raw.v, raw, 0)
  ELSE IF up \in {"neterr", "throw"} THEN Loaded(TRUE, <<>>, raw, 1)
  ELSE IF up = "non2xx" THEN Loaded(FALSE, <<>>, raw, 1)
  ELSE Loaded(FALSE, toEvents(body), stringify(toEvents(body)), 1)

\* GET /github/events (lines 2181-2187)
GetGithubEvents(up, body) ==
  \E r \in {loadGithubEvents(eventsKv, up, body)} :
    /\ eventsKv' = r.kv
    /\ resp' = Response("events", up, eventsKv, Absent, StatusOf(r.threw), r.body, r.calls)
    /\ UNCHANGED <<ghToken, regKv, regStaleKv, chgKv, statsKv, trendKv>>

(***************************************************************************)
(* Derived status: per-repo severity, fleet status, trend direction        *)
(***************************************************************************)
\* String.prototype.toLowerCase and trim on the spellings the model uses
toLowerCase(text) ==
  CASE text = "SUCCESS" -> "success"
    [] text = "Stale" -> "stale"
    [] text = " FAILURE " -> " failure "
    [] text = "FAILURE" -> "failure"
    [] OTHER -> text

trim(text) ==
  CASE text = " failure " -> "failure"
    [] text = " FAILURE " -> "FAILURE"
    [] text = "  " -> ""
    [] OTHER -> text

\* JavaScript null where a string may stand; the four-letter string "null" is
\* another value
NULL == "<null>"

\* the conclusion field of a run object in an upstream run listing:
\* kind "null", "nonstring" (a number, an object, the field missing) or
\* "string" with its text; kind "norun" stands for a listing entry that is
\* not an object, which parseWorkflowRun rejects
RawConclusion(kind, text) == [kind |-> kind, text |-> text]

ConclusionSpellings ==
  {"success", "SUCCESS", "failure", " FAILURE ", "cancelled", "timed_out",
   "action_required", "startup_failure", "stale", "Stale", "neutral", "skipped",
   "in_progress", "unknown", "null", "", "  "}

RawConclusions ==
  {RawConclusion("norun", ""), RawConclusion("null", ""), RawConclusion("nonstring", "")}
    \cup {RawConclusion("string", t) : t \in ConclusionSpellings}

\* A run as loadLatestWorkflowRun returns it: present = FALSE is null
Run(present, conclusion) == [present |-> present, conclusion |-> conclusion]
NoRun == Run(FALSE, NULL)

\* lines 1075-1104, the conclusion field
parseWorkflowRun(raw) ==
  IF raw.kind = "norun" THEN NoRun
  ELSE Run(TRUE, IF raw.kind = "string" THEN toLowerCase(trim(raw.text)) ELSE NULL)

\* lines 1251-1268, the conclusion field
toFleetRepoHealth(run, hasGithubToken) ==
  IF ~hasGithubToken THEN "unknown"
  ELSE IF run.present /\ run.conclusion = NULL THEN "null"
  ELSE IF run.present /\ run.conclusion # "" THEN run.conclusion
  ELSE "unknown"

FailureFamily ==
  {"failure", "cancelled", "timed_out", "action_required", "startup_failure", "stale"}

deriveRepoHealthStatus_staleYellow(conclusion) ==
  LET c == toLowerCase(conclusion)
  IN IF c = "success" THEN "GREEN"
     ELSE IF c \in FailureFamily \ {"stale"} THEN "RED"
     ELSE IF c = "unknown" THEN "UNKNOWN"
     ELSE "YELLOW"

\* lines 1032-1045
deriveRepoHealthStatus(conclusion) ==
  LET c == toLowerCase(conclusion)
  IN IF c = "success" THEN "GREEN"
     ELSE IF c \in FailureFamily THEN "RED"
     ELSE IF c = "unknown" THEN "UNKNOWN"
     ELSE "YELLOW"

\* lines 977-982
fleetStatusSeverity(status) ==
  CASE status = "RED" -> 3
    [] status = "YELLOW" -> 2
    [] status = "GREEN" -> 1
    [] OTHER -> 0

\* the loop of lines 1049-1056 from position i on, result being the status so far
RECURSIVE deriveFleetLoop(_, _, _)
deriveFleetLoop(conclusions, i, result) ==
  IF i > Len(conclusions) \/ result = "RED" THEN result
  ELSE LET status == deriveRepoHealthStatus(conclusions[i])
       IN deriveFleetLoop(conclusions, i + 1,
            IF fleetStatusSeverity(status) > fleetStatusSeverity(result)
              THEN status ELSE result)

deriveFleetHealthStatus_lastWins(conclusions) ==
  IF Len(conclusions) = 0 THEN "UNKNOWN"
  ELSE deriveRepoHealthStatus(conclusions[Len(conclusions)])

\* lines 1047-1058
deriveFleetHealthStatus(conclusions) ==
  IF Len(conclusions) = 0 THEN "UNKNOWN" ELSE deriveFleetLoop(conclusions, 1, "UNKNOWN")

MaxFleet == 3

RECURSIVE SeqsUpTo(_, _)
SeqsUpTo(S, n) ==
  IF n = 0 THEN {<<>>}
  ELSE LET shorter == SeqsUpTo(S, n - 1)
       IN shorter \cup {Append(q, x) : q \in {r \in shorter : Len(r) = n - 1}, x \in S}

Derived(done, conclusions, statuses, status) ==
  [done |-> done, conclusions |-> conclusions, statuses |-> statuses, status |-> status]
NotDerived == Derived(FALSE, <<>>, <<>>, "none")

DerivParked == derivIn = <<>> /\ derivOut = NotDerived

\* the latest run of each repo of a fleet, as upstream lists it
StatusInit == derivIn \in SeqsUpTo(RawConclusions, MaxFleet) /\ derivOut = NotDerived

\* lines 1273-1283 with a credential configured: each repo's conclusion, its
\* severity and the fleet status
AggregateStatus ==
  LET conclusions == [i \in DOMAIN derivIn |->
                        toFleetRepoHealth(parseWorkflowRun(derivIn[i]), TRUE)]
  IN /\ ~derivOut.done
     /\ derivOut' = Derived(TRUE, conclusions,
                            [i \in DOMAIN conclusions |-> deriveRepoHealthStatus(conclusions[i])],
                            deriveFleetHealthStatus(conclusions))
     /\ UNCHANGED derivIn

StatusNext ==
  \/ AggregateStatus /\ DerivFrame

Statuses == {"RED", "YELLOW", "GREEN", "UNKNOWN"}

\* the status of greatest severity among those of a list of statuses
MaxSeverity(statuses) ==
  IF Len(statuses) = 0 THEN "UNKNOWN"
  ELSE CHOOSE st \in Statuses :
         /\ \E i \in DOMAIN statuses : statuses[i] = st
         /\ \A i \in DOMAIN statuses : fleetStatusSeverity(st) >= fleetStatusSeverity(statuses[i])

\* C7: the fleet status is the per-repo status of greatest severity under
\* RED > YELLOW > GREEN > UNKNOWN, for every list of repos in every order, and
\* UNKNOWN for the empty list; [success, failure] gives RED, [success, success]
\* GREEN and [success, in_progress] YELLOW.
C7_FleetStatusIsMaxSeverity ==
  derivOut.done =>
    /\ derivOut.status = MaxSeverity(derivOut.statuses)
    /\ Len(derivIn) = 0 => derivOut.status = "UNKNOWN"
    /\ derivOut.conclusions = <<"success", "failure">> => derivOut.status = "RED"
    /\ derivOut.conclusions = <<"success", "success">> => derivOut.status = "GREEN"
    /\ derivOut.conclusions = <<"success", "in_progress">> => derivOut.status = "YELLOW"

\* C7 witness: a fleet whose first repo is RED and a later one is not, so the
\* loop stopped before the end of the list
C7_Witness ==
  /\ derivOut.done
  /\ derivOut.statuses = <<"RED", "YELLOW", "GREEN">>
  /\ derivOut.status = "RED"

\* the table of the specification, read on the conclusion upstream reports
\* (its case and surrounding blanks set aside)
TableAsStated(raw) ==
  LET c == toLowerCase(trim(raw.text))
  IN IF raw.kind = "null" THEN "UNKNOWN"
     ELSE IF c = "success" THEN "GREEN"
     ELSE IF c = "unknown" THEN "UNKNOWN"
     ELSE IF c \in FailureFamily THEN "RED"
     ELSE "YELLOW"

trendScore(conclusion) ==
  LET normalized == toLowerCase(trim(conclusion))
  IN IF normalized = "success" THEN 2
     ELSE IF normalized \in {"neutral", "skipped"} THEN 1
     ELSE IF normalized \in FailureFamily THEN 0
     ELSE 1

\* lines 1148-1151 give sum / length; two averages are compared here by the
\* sign of sumA * lenB - sumB * lenA, with the average of no value being 0
compareAverage(a, b) ==
  LET sa == SumSeq(a)
      sb == SumSeq(b)
      la == IF Len(a) = 0 THEN 1 ELSE Len(a)
      lb == IF Len(b) = 0 THEN 1 ELSE Len(b)
  IN sa * lb - sb * la

\* Math.ceil(n / 2) and Math.floor(n / 2)
CeilHalf(n) == (n + 1) \div 2
FloorHalf(n) == n \div 2

deriveTrendDirection_at(conclusions, split) ==
  LET scores == [i \in DOMAIN conclusions |-> trendScore(conclusions[i])]
      n == Len(scores)
      diff == compareAverage(SubSeq(scores, 1, split), SubSeq(scores, split + 1, n))
  IN IF n = 0 THEN "unknown"
     ELSE IF n = 1 THEN "flat"
     ELSE IF scores[1] > scores[n] THEN "up"
     ELSE IF scores[1] < scores[n] THEN "down"
     ELSE IF diff > 0 THEN "up"
     ELSE IF diff < 0 THEN "down"
     ELSE "flat"

deriveTrendDirection_floorSplit(conclusions) ==
  deriveTrendDirection_at(conclusions, FloorHalf(Len(conclusions)))

\* lines 1153-1169
deriveTrendDirection(conclusions) ==
  deriveTrendDirection_at(conclusions, CeilHalf(Len(conclusions)))

\* the number of runs a trend is computed from (per_page=5, slice(0, 5))
TREND_WINDOW == 5

TrendConclusions ==
  {"success", "SUCCESS", "neutral", "skipped", "failure", "stale", "in_progress"}

TrendInit == derivIn \in SeqsUpTo(TrendConclusions, TREND_WINDOW) /\ derivOut = NotDerived

\* lines 1296-1301: the direction of one repo's last runs, newest first
DeriveTrend ==
  /\ ~derivOut.done
  /\ derivOut' = Derived(TRUE, derivIn,
                         [i \in DOMAIN derivIn |-> trendScore(derivIn[i])],
                         deriveTrendDirection(derivIn))
  /\ UNCHANGED derivIn

TrendNext ==
  \/ DeriveTrend /\ DerivFrame

\* the score the specification gives a conclusion
ScoreAsStated(c) ==
  IF c \in {"success", "SUCCESS"} THEN 2
  ELSE IF c \in {"failure", "stale"} THEN 0
  ELSE 1

\* C10: no conclusion gives unknown, one gives flat; otherwise up when the
\* newest score is above the oldest, down when below, and on a tie the average
\* of the ceil(n/2) newest scores against that of the others decides (greater
\* up, less down, equal flat); [success, success, failure, failure, failure]
\* gives up and its reverse down.
C10_TrendDirection ==
  derivOut.done =>
    LET n == Len(derivIn)
        sc == [i \in 1..n |-> ScoreAsStated(derivIn[i])]
        h == IF n % 2 = 0 THEN n \div 2 ELSE (n \div 2) + 1
        newer == SumSeq(SubSeq(sc, 1, h))
        older == SumSeq(SubSeq(sc, h + 1, n))
        expected ==
          IF n = 0 THEN "unknown"
          ELSE IF n = 1 THEN "flat"
          ELSE IF sc[1] > sc[n] THEN "up"
          ELSE IF sc[1] < sc[n] THEN "down"
          ELSE IF newer * (n - h) > older * h THEN "up"
          ELSE IF newer * (n - h) < older * h THEN "down"
          ELSE "flat"
    IN /\ derivOut.status = expected
       /\ derivIn = <<"success", "success", "failure", "failure", "failure">>
            => derivOut.status = "up"
       /\ derivIn = <<"failure", "failure", "failure", "success", "success">>
            => derivOut.status = "down"

\* C10 witness: five runs whose newest and oldest scores tie and whose
\* direction is decided by the averages of the three newest and the two oldest
C10_Witness ==
  /\ derivOut.done
  /\ derivIn = <<"success", "failure", "failure", "SUCCESS", "success">>
  /\ derivOut.status = "down"

(***************************************************************************)
(* GET /fleet/trend and the specification of the cached read paths         *)
(***************************************************************************)
\* lines 1111-1121: the cached conclusions of a repo
parseConclusionsCache(raw) ==
  IF raw.kind # "json" THEN ParseNull
  ELSE LET first == Slice(raw.v, TREND_WINDOW)
           normalized == [i \in DOMAIN first |-> toLowerCase(trim(first[i]))]
       IN Parsed(TRUE, SelectSeq(normalized, LAMBDA c : c # ""))

\* lines 1123-1129
workflowRunToConclusion(run) ==
  IF run.conclusion = NULL THEN "null"
  ELSE IF run.conclusion # "" THEN run.conclusion
  ELSE "unknown"

\* lines 1194-1198: the conclusions of an upstream run listing
listingToConclusions(listing) ==
  LET first == Slice(listing, TREND_WINDOW)
      runs == SelectSeq([i \in DOMAIN first |-> parseWorkflowRun(first[i])],
                        LAMBDA run : run.present)
  IN [i \in DOMAIN runs |-> workflowRunToConclusion(runs[i])]

RunListings ==
  {<<>>,
   <<RawConclusion("string", "SUCCESS"), RawConclusion("norun", ""),
     RawConclusion("null", ""), RawConclusion("string", "failure")>>}

\* lines 1171-1208: every failure of the call is caught and gives no conclusion
loadRecentWorkflowConclusions(raw, token, up, listing) ==
  LET cached == parseConclusionsCache(raw)
      conclusions == listingToConclusions(listing)
  IN IF cached.ok THEN Loaded(FALSE, cached.v, raw, 0)
     ELSE IF token = "absent" THEN Loaded(FALSE, <<>>, raw, 0)
     ELSE IF up # "ok" THEN Loaded(FALSE, <<>>, raw, 1)
     ELSE Loaded(FALSE, conclusions, stringify(conclusions), 1)

\* GET /fleet/trend (lines 2089-2099, 1292-1312); runs gives, for each repo,
\* how the call for its run listing ends and the listing
GetFleetTrend(up, payload, runs) ==
  \E r \in {loadRegistryEntries(regKv, regStaleKv, up, payload)} :
    \E t \in {[q \in Repos |->
                 loadRecentWorkflowConclusions(trendKv[q], ghToken,
                                               runs[q].up, runs[q].payload)]} :
      LET listed == {r.entries[i].repo : i \in DOMAIN r.entries}
      IN /\ regKv' = r.primary
         /\ regStaleKv' = r.stale
         /\ trendKv' = [q \in Repos |-> IF q \in listed THEN t[q].kv ELSE trendKv[q]]
         /\ resp' = Response("trend", up, regKv, regStaleKv, 200,
                             [i \in DOMAIN r.entries |->
                                [repo |-> r.entries[i].repo,
                                 last5 |-> t[r.entries[i].repo].body,
                                 direction |-> deriveTrendDirection(t[r.entries[i].repo].body)]],
                             r.calls + SumSeq([i \in DOMAIN r.entries |->
                                                 t[r.entries[i].repo].calls]))
         /\ UNCHANGED <<ghToken, chgKv, statsKv, eventsKv>>

\* the primary registry key outlives its TTL (1 hour) while the stale copy
\* (7 days) is still there
RegistryKeyExpires ==
  /\ regKv # Absent
  /\ regKv' = Absent
  /\ UNCHANGED <<ghToken, regStaleKv, chgKv, statsKv, eventsKv, trendKv, resp>>

MaxRequests == 2

CacheInit ==
  /\ ghToken \in {"absent", "blank", "set"}
  /\ regKv \in RegistryInitKv /\ regStaleKv \in RegistryInitKv
  /\ \E raw \in {Absent, Corrupt} :
       /\ chgKv = raw /\ statsKv = raw /\ eventsKv = raw
       /\ trendKv = [r \in Repos |-> raw]
  /\ resp = NoResponse

\* what upstream answers to one call: a failure, or a payload
Upstream(payloads) ==
  {[up |-> f, payload |-> <<>>] : f \in UpFailures}
    \cup {[up |-> "ok", payload |-> p] : p \in payloads}

\* how the per-repo calls of one request end
RepoOutcomes ==
  {[r \in Repos |-> "ok"], [r \in Repos |-> "non2xx"],
   [r \in Repos |-> IF r = 1 THEN "ok" ELSE "neterr"],
   [r \in Repos |-> IF r = 1 THEN "throw" ELSE "ok"]}

\* the run listings of the repos in one request
RepoRuns ==
  LET full == CHOOSE l \in RunListings : l # <<>>
      answer(up, listing) == [up |-> up, payload |-> listing]
  IN {[r \in Repos |-> answer("ok", full)],
      [r \in Repos |-> answer("ok", <<>>)],
      [r \in Repos |-> answer("non2xx", <<>>)],
      [r \in Repos |-> IF r = 1 THEN answer("ok", full) ELSE answer("neterr", <<>>)],
      [r \in Repos |-> IF r = 1 THEN answer("throw", <<>>) ELSE answer("ok", full)],
      [r \in Repos |-> IF r = 1 THEN answer("ok", full)
                                ELSE answer("ok", <<RawConclusion("string", "failure")>>)]}

CacheNext ==
  \/ \E u \in Upstream(RegistryPayloads) :
       resp.n < MaxRequests /\ GetTools(u.up, u.payload) /\ CacheFrame
  \/ \E path \in {"projects", "summary"}, u \in Upstream(RegistryPayloads) :
       resp.n < MaxRequests /\ GetRegistryView(path, u.up, u.payload) /\ CacheFrame
  \/ \E u \in Upstream(RegistryPayloads), repoUp \in RepoOutcomes :
       resp.n < MaxRequests /\ GetTasks(u.up, u.payload, repoUp) /\ CacheFrame
  \/ \E u \in Upstream(RegistryPayloads), runs \in RepoRuns :
       resp.n < MaxRequests /\ GetFleetTrend(u.up, u.payload, runs) /\ CacheFrame
  \/ \E u \in Upstream(ChangelogPayloads) :
       resp.n < MaxRequests /\ GetChangelog(u.up, u.payload) /\ CacheFrame
  \/ \E upUser \in UpOutcomes, u \in Upstream(StarsListings) :
       resp.n < MaxRequests /\ GetGithubStats(upUser, u.up, 3, u.payload) /\ CacheFrame
  \/ \E u \in Upstream(EventsPayloads) :
       resp.n < MaxRequests /\ GetGithubEvents(u.up, u.payload) /\ CacheFrame
  \/ RegistryKeyExpires /\ CacheFrame

\* the repos a response of a registry-backed path serves, in order
ServedRepos(r) ==
  IF r.path = "projects" THEN r.body
  ELSE [i \in DOMAIN r.body |-> r.body[i].repo]

RegistryPaths == {"tools", "projects", "summary", "tasks", "trend"}

\* C3: on every endpoint that reads the tool registry, when the primary key is
\* absent or unparseable, the upstream call fails (non-2xx, network error or
\* throw) and the stale key holds a parseable value, the read returns the
\* content stored under the stale key.
C3_StaleServedOnEveryEndpoint ==
  ( /\ resp.path \in RegistryPaths
    /\ ~parseRegistryEntries(resp.primary).ok
    /\ resp.up \in UpFailures
    /\ parseRegistryEntries(resp.stale).ok )
  => LET staleEntries == parseRegistryEntries(resp.stale).v
     IN /\ ServedRepos(resp) = [i \in DOMAIN staleEntries |-> staleEntries[i].repo]
        /\ resp.path \in {"tools", "summary"} => resp.body = staleEntries

\* the body a path documents for a failed load
DefaultBody(path) == IF path = "stats" THEN StatsDefault ELSE <<>>

\* C4: on every public read path backed by an upstream dataset (tools,
\* projects, fleet summary, fleet trend, tasks, changelog, GitHub stats, GitHub
\* events), when the primary cache misses, the upstream call fails (non-2xx,
\* network error or thrown exception) and there is no stale entry, the request
\* completes with status 200 and the empty or default body.
C4_AlwaysOkWithDefault ==
  ( /\ resp.path \in RegistryPaths \cup {"changelog", "stats", "events"}
    /\ resp.primary.kind # "json"
    /\ resp.up \in UpFailures
    /\ resp.stale.kind # "json" )
  => resp.status = 200 /\ resp.body = DefaultBody(resp.path)

\* one read, from each of the stores a run can start in
CacheReadNext == resp.n = 0 /\ CacheNext

\* C32: a failed upstream fetch (a non-2xx answer or an error) never writes
\* to a cache key of its dataset: after a read whose upstream call failed,
\* the registry keys (primary and stale), the changelog key, the stats key
\* and the events key of the dataset read are as they were.
C32_FailureNeverCached ==
  [][(resp'.n = resp.n + 1 /\ resp'.up \in UpFailures)
       => /\ resp'.path \in RegistryPaths => regKv' = regKv /\ regStaleKv' = regStaleKv
          /\ resp'.path = "changelog" => chgKv' = chgKv
          /\ resp'.path = "stats" => statsKv' = statsKv
          /\ resp'.path = "events" => eventsKv' = eventsKv]_vars

(***************************************************************************)
(* Fleet health: GET /fleet/health                                         *)
(***************************************************************************)
FLEET_HEALTH_TTL_SEC == 300
FLEET_HEALTH_TTL_MS == FLEET_HEALTH_TTL_SEC * 1000

\* A snapshot: the fleet status, the repos with their conclusions in repo
\* order, and the time of the check (-1: a checkedAt that Date.parse rejects)
Snapshot(status, repos, checkedAt) ==
  [status |-> status, repos |-> repos, checkedAt |-> checkedAt]
NoSnapshot == Snapshot("UNKNOWN", <<>>, 0)

\* the raw value under fleet:health:v1; kind "corrupt" is a value that does not
\* parse or that parseFleetHealthPayload rejects
RawHealth(kind, v, expiresAt) == [kind |-> kind, v |-> v, expiresAt |-> expiresAt]
AbsentHealth == RawHealth("null", NoSnapshot, 0)

parseFleetHealthPayload_rejectAll(raw) == Parsed(FALSE, NoSnapshot)

\* lines 984-1024
parseFleetHealthPayload(raw) ==
  IF raw.kind = "json" THEN Parsed(TRUE, raw.v) ELSE Parsed(FALSE, NoSnapshot)

isFleetHealthFresh_never(payload, t) == FALSE

\* lines 1026-1030
isFleetHealthFresh(payload, t) ==
  IF ~IsFiniteNumber(payload.checkedAt) THEN FALSE
  ELSE t - payload.checkedAt < FLEET_HEALTH_TTL_MS

\* the raw value under a repo's CI run key: the run object last stored
RawRun(kind, conclusion) == [kind |-> kind, conclusion |-> conclusion]
AbsentRun == RawRun("null", RawConclusion("norun", ""))
storeRun(run) ==
  RawRun("json", IF run.conclusion = NULL THEN RawConclusion("null", "")
                 ELSE RawConclusion("string", run.conclusion))

\* lines 1106-1109
parseWorkflowRunCache(raw) ==
  IF raw.kind = "json" THEN parseWorkflowRun(raw.conclusion) ELSE NoRun

loadLatestWorkflowRun_ignoreCache(raw, token, up, listing) ==
  LET noRun == Run(TRUE, NULL)
      latestRun == parseWorkflowRun(listing[1])
      result(threw, run, kv, calls) ==
        [threw |-> threw, run |-> run, kv |-> kv, calls |-> calls]
  IN IF token = "absent" THEN result(FALSE, NoRun, raw, 0)
     ELSE IF up # "ok" THEN result(TRUE, NoRun, raw, 1)
     ELSE IF listing = <<>> THEN result(FALSE, noRun, storeRun(noRun), 1)
     ELSE IF ~latestRun.present THEN result(FALSE, NoRun, raw, 1)
     ELSE result(FALSE, latestRun, storeRun(latestRun), 1)

\* lines 1210-1249.  The upstream call is made unless a run is cached or
\* env.GITHUB_TOKEN is falsy (unset or empty: a blank string is truthy); a
\* non-2xx answer, a rejected fetch and an unreadable body all leave the loader
\* as an exception.
loadLatestWorkflowRun(raw, token, up, listing) ==
  LET cached == parseWorkflowRunCache(raw)
      noRun == Run(TRUE, NULL)
      latestRun == parseWorkflowRun(listing[1])
      result(threw, run, kv, calls) ==
        [threw |-> threw, run |-> run, kv |-> kv, calls |-> calls]
  IN IF cached.present THEN result(FALSE, cached, raw, 0)
     ELSE IF token = "absent" THEN result(FALSE, NoRun, raw, 0)
     ELSE IF up # "ok" THEN result(TRUE, NoRun, raw, 1)
     ELSE IF listing = <<>> THEN result(FALSE, noRun, storeRun(noRun), 1)
     ELSE IF ~latestRun.present THEN result(FALSE, NoRun, raw, 1)
     ELSE result(FALSE, latestRun, storeRun(latestRun), 1)

FleetParked == healthKv = AbsentHealth /\ ciKv = [r \in Repos |-> AbsentRun]

\* what GET /fleet/health answered: fresh tells the stored snapshot was served
\* as fresh, failed that a run lookup threw, ciCalls counts the upstream run
\* listings asked for
FleetResponse(up, fresh, failed, status, body, calls, ciCalls) ==
  [path |-> "health", up |-> up, primary |-> Absent, stale |-> Absent,
   status |-> status, body |-> body, calls |-> calls, n |-> resp.n + 1,
   fresh |-> fresh, failed |-> failed, ciCalls |-> ciCalls]

GetFleetHealth_writeOnFailure(up, registry, runs) ==
  \E cachedPayload \in {parseFleetHealthPayload(healthKv)} :
    IF cachedPayload.ok /\ isFleetHealthFresh(cachedPayload.v, now)
    THEN /\ resp' = FleetResponse("ok", TRUE, FALSE, 200, cachedPayload.v, 0, 0)
         /\ UNCHANGED <<ghToken, regKv, regStaleKv, chgKv, statsKv, eventsKv, trendKv,
                        fleetVars>>
    ELSE
      \E r \in {loadRegistryEntries(regKv, regStaleKv, up, registry)} :
        \E t \in {[q \in Repos |->
                     loadLatestWorkflowRun(ciKv[q], ghToken, runs[q].up, runs[q].payload)]} :
          LET listed == {r.entries[i].repo : i \in DOMAIN r.entries}
              failed == \E q \in listed : t[q].threw
              ciCalls == SumSeq([i \in DOMAIN r.entries |-> t[r.entries[i].repo].calls])
              repos == [i \in DOMAIN r.entries |->
                          [repo |-> r.entries[i].repo,
                           conclusion |-> toFleetRepoHealth(t[r.entries[i].repo].run,
                                                            ghToken = "set")]]
              payload == Snapshot(
                           deriveFleetHealthStatus([i \in DOMAIN repos |-> repos[i].conclusion]),
                           repos, now)
          IN /\ regKv' = r.primary
             /\ regStaleKv' = r.stale
             /\ UNCHANGED <<ghToken, chgKv, statsKv, eventsKv, trendKv>>
             /\ IF failed
                THEN /\ \E landed \in SUBSET {q \in listed : ~t[q].threw} :
                          ciKv' = [q \in Repos |-> IF q \in landed THEN t[q].kv ELSE ciKv[q]]
                     /\ healthKv' = RawHealth("json", payload, now + FLEET_HEALTH_TTL_MS)
                     /\ resp' = FleetResponse(up, FALSE, TRUE,
                                  IF cachedPayload.ok THEN 200 ELSE 503,
                                  IF cachedPayload.ok THEN cachedPayload.v ELSE NoSnapshot,
                                  r.calls + ciCalls, ciCalls)
                ELSE /\ ciKv' = [q \in Repos |-> IF q \in listed THEN t[q].kv ELSE ciKv[q]]
                     /\ healthKv' = RawHealth("json", payload, now + FLEET_HEALTH_TTL_MS)
                     /\ resp' = FleetResponse(up, FALSE, FALSE, 200, payload,
                                              r.calls + ciCalls, ciCalls)

\* GET /fleet/health (lines 1849-1874) with loadFleetHealthFromGithub (lines
\* 1270-1290).  The run lookups of all repos are started together; when one
\* throws, the handler answers at once and the stores of the other lookups may
\* or may not have landed.
GetFleetHealth(up, registry, runs) ==
  \E cachedPayload \in {parseFleetHealthPayload(healthKv)} :
    IF cachedPayload.ok /\ isFleetHealthFresh(cachedPayload.v, now)
    THEN /\ resp' = FleetResponse("ok", TRUE, FALSE, 200, cachedPayload.v, 0, 0)
         /\ UNCHANGED <<ghToken, regKv, regStaleKv, chgKv, statsKv, eventsKv, trendKv,
                        fleetVars>>
    ELSE
      \E r \in {loadRegistryEntries(regKv, regStaleKv, up, registry)} :
        \E t \in {[q \in Repos |->
                     loadLatestWorkflowRun(ciKv[q], ghToken, runs[q].up, runs[q].payload)]} :
          LET listed == {r.entries[i].repo : i \in DOMAIN r.entries}
              failed == \E q \in listed : t[q].threw
              ciCalls == SumSeq([i \in DOMAIN r.entries |-> t[r.entries[i].repo].calls])
              repos == [i \in DOMAIN r.entries |->
                          [repo |-> r.entries[i].repo,
                           conclusion |-> toFleetRepoHealth(t[r.entries[i].repo].run,
                                                            ghToken = "set")]]
              payload == Snapshot(
                           deriveFleetHealthStatus([i \in DOMAIN repos |-> repos[i].conclusion]),
                           repos, now)
          IN /\ regKv' = r.primary
             /\ regStaleKv' = r.stale
             /\ UNCHANGED <<ghToken, chgKv, statsKv, eventsKv, trendKv>>
             /\ IF failed
                THEN /\ \E landed \in SUBSET {q \in listed : ~t[q].threw} :
                          ciKv' = [q \in Repos |-> IF q \in landed THEN t[q].kv ELSE ciKv[q]]
                     /\ UNCHANGED healthKv
                     /\ resp' = FleetResponse(up, FALSE, TRUE,
                                  IF cachedPayload.ok THEN 200 ELSE 503,
                                  IF cachedPayload.ok THEN cachedPayload.v ELSE NoSnapshot,
                                  r.calls + ciCalls, ciCalls)
                ELSE /\ ciKv' = [q \in Repos |-> IF q \in listed THEN t[q].kv ELSE ciKv[q]]
                     /\ healthKv' = RawHealth("json", payload, now + FLEET_HEALTH_TTL_MS)
                     /\ resp' = FleetResponse(up, FALSE, FALSE, 200, payload,
                                              r.calls + ciCalls, ciCalls)

\* the snapshot key outlives its TTL; the store drops it at some later time
HealthKeyExpires ==
  /\ healthKv.kind # "null"
  /\ now >= healthKv.expiresAt
  /\ healthKv' = AbsentHealth
  /\ UNCHANGED <<ciKv, cacheVars>>

FleetTickSteps == {1, FLEET_HEALTH_TTL_MS - 1}

\* the registry the fleet is read from
FleetRegistry == <<Item(2, FALSE, TRUE), Item(1, TRUE, TRUE)>>

FleetInit ==
  /\ ghToken \in {"absent", "blank", "set"}
  /\ regStaleKv \in {Absent, stringify(extractRegistryEntries(FleetRegistry))}
  /\ regKv \in {Absent, regStaleKv}
  /\ chgKv = Absent /\ statsKv = Absent /\ eventsKv = Absent
  /\ trendKv = [r \in Repos |-> Absent]
  /\ resp = NoResponse
  /\ healthKv \in {AbsentHealth, RawHealth("corrupt", NoSnapshot, 0),
                   RawHealth("json",
                             Snapshot("GREEN", <<[repo |-> 1, conclusion |-> "success"]>>, 0),
                             FLEET_HEALTH_TTL_MS)}
  /\ ciKv \in {[r \in Repos |-> AbsentRun],
               [r \in Repos |-> IF r = 1 THEN storeRun(Run(TRUE, "failure"))
                                         ELSE RawRun("corrupt", RawConclusion("norun", ""))]}

\* the registry call of a request ends "ok", "non2xx" or "neterr": the loader
\* catches a thrown body exactly as it catches a rejected fetch
FleetNext ==
  \/ \E u \in {x \in Upstream({FleetRegistry}) : x.up # "throw"}, runs \in RepoRuns :
       /\ resp.n < MaxRequests
       /\ GetFleetHealth(u.up, u.payload, runs)
       /\ UNCHANGED clockVars /\ FleetFrame
  \/ HealthKeyExpires /\ UNCHANGED clockVars /\ FleetFrame
  \/ \E d \in FleetTickSteps : Tick(d) /\ UNCHANGED <<cacheVars, fleetVars>> /\ FleetFrame

\* a step that answers a GET /fleet/health
HealthStep == resp'.n = resp.n + 1 /\ resp'.path = "health"

\* the stored snapshot is within its freshness window at time t
InWindow(raw, t) ==
  raw.kind = "json" /\ raw.v.checkedAt >= 0 /\ t < raw.v.checkedAt + FLEET_HEALTH_TTL_MS

\* C5: when GET /fleet/health finds no fresh snapshot and a run lookup fails
\* during aggregation, it answers 200 with the snapshot in the store, whatever
\* the age of that snapshot, and leaves it in the store; it answers 503 only
\* when the store holds no parseable snapshot.
C5_StaleSnapshotOnFailure ==
  [][HealthStep =>
       /\ resp'.failed =>
            /\ ~InWindow(healthKv, now)
            /\ healthKv.kind = "json" =>
                 resp'.status = 200 /\ resp'.body = healthKv.v /\ healthKv' = healthKv
            /\ healthKv.kind # "json" => resp'.status = 503
       /\ resp'.status = 503 => healthKv.kind # "json" /\ resp'.failed]_vars

\* C5 witness: a lookup failed and the answer is the stored snapshot, checked
\* more than two freshness windows ago
C5_Witness ==
  /\ resp.path = "health" /\ resp.failed /\ resp.status = 200
  /\ healthKv.kind = "json" /\ resp.body = healthKv.v
  /\ now >= resp.body.checkedAt + 2 * FLEET_HEALTH_TTL_MS

\* C6: while the store holds a snapshot with checkedAt = t, every
\* GET /fleet/health at a time strictly before t + 5 minutes answers that
\* snapshot as it is stored, calls nothing upstream and writes nothing.
C6_FreshSnapshotServed ==
  [][(HealthStep /\ InWindow(healthKv, now)) =>
       /\ resp'.status = 200 /\ resp'.body = healthKv.v
       /\ resp'.calls = 0 /\ resp'.ciCalls = 0
       /\ UNCHANGED <<healthKv, ciKv, regKv, regStaleKv>>]_vars

\* C6 witness: a snapshot computed by one request at a time t > 0 is served by
\* the next one, one millisecond before t + 5 minutes
C6_Witness ==
  /\ resp.path = "health" /\ resp.fresh /\ resp.n = 2
  /\ resp.body = healthKv.v
  /\ resp.body.checkedAt > 0
  /\ now = resp.body.checkedAt + FLEET_HEALTH_TTL_MS - 1

\* C9: without a credential, aggregation asks upstream for no run listing,
\* reports the conclusion "unknown" for every repo, cached run or not, and the
\* fleet status UNKNOWN.
C9_NoCredentialNoCalls ==
  (resp.path = "health" /\ ~resp.fresh /\ ghToken # "set") =>
    /\ resp.ciCalls = 0
    /\ resp.status = 200
    /\ \A i \in DOMAIN resp.body.repos : resp.body.repos[i].conclusion = "unknown"
    /\ resp.body.status = "UNKNOWN"

\* a raw value with an unparseable one taken for an absent one
Scrub(raw) == IF raw.kind = "corrupt" THEN Absent ELSE raw

\* two results of a registry loader, or of another loader, that differ at most
\* in an unparseable value left where the other found none
SameRegistryLoad(a, b) ==
  /\ a.entries = b.entries /\ a.cached = b.cached /\ a.calls = b.calls
  /\ Scrub(a.primary) = Scrub(b.primary) /\ Scrub(a.stale) = Scrub(b.stale)
SameLoad(a, b) ==
  /\ a.threw = b.threw /\ a.body = b.body /\ a.calls = b.calls
  /\ Scrub(a.kv) = Scrub(b.kv)

\* C17: for each cached dataset and each of its tiers, a load that finds an
\* unparseable value under the key makes the same upstream calls, returns the
\* same result with the same outcome (an exception of the upstream call
\* included) and writes the same values as the load that finds the key
\* absent, whatever the other tier holds and however upstream answers.
C17_CorruptLikeAbsent ==
  /\ \A u \in Upstream(RegistryPayloads) :
       /\ SameRegistryLoad(loadRegistryEntries(Corrupt, regStaleKv, u.up, u.payload),
                           loadRegistryEntries(Absent, regStaleKv, u.up, u.payload))
       /\ SameRegistryLoad(loadRegistryEntries(regKv, Corrupt, u.up, u.payload),
                           loadRegistryEntries(regKv, Absent, u.up, u.payload))
       /\ SameRegistryLoad(loadToolsRegistryEntries(Corrupt, regStaleKv, u.up, u.payload),
                           loadToolsRegistryEntries(Absent, regStaleKv, u.up, u.payload))
       /\ SameRegistryLoad(loadToolsRegistryEntries(regKv, Corrupt, u.up, u.payload),
                           loadToolsRegistryEntries(regKv, Absent, u.up, u.payload))
  /\ \A u \in Upstream(ChangelogPayloads) :
       SameLoad(loadChangelog(Corrupt, u.up, u.payload),
                loadChangelog(Absent, u.up, u.payload))
  /\ \A upUser \in UpOutcomes, u \in Upstream(StarsListings) :
       SameLoad(loadGithubStats(Corrupt, upUser, u.up, 3, u.payload),
                loadGithubStats(Absent, upUser, u.up, 3, u.payload))
  /\ \A u \in Upstream(EventsPayloads) :
       SameLoad(loadGithubEvents(Corrupt, u.up, u.payload),
                loadGithubEvents(Absent, u.up, u.payload))
  /\ \A u \in Upstream(RunListings) :
       SameLoad(loadRecentWorkflowConclusions(Corrupt, ghToken, u.up, u.payload),
                loadRecentWorkflowConclusions(Absent, ghToken, u.up, u.payload))
  /\ parseFleetHealthPayload(RawHealth("corrupt", NoSnapshot, 0))
       = parseFleetHealthPayload(AbsentHealth)
  /\ \A u \in Upstream(RunListings) :
       LET bad == loadLatestWorkflowRun(RawRun("corrupt", RawConclusion("norun", "")),
                                        ghToken, u.up, u.payload)
           none == loadLatestWorkflowRun(AbsentRun, ghToken, u.up, u.payload)
       IN /\ bad.threw = none.threw /\ bad.run = none.run /\ bad.calls = none.calls
          /\ (bad.kv.kind = "json" \/ none.kv.kind = "json") => bad.kv = none.kv
  /\ (resp.primary.kind = "corrupt" /\ resp.path \in {"changelog", "stats", "events"})
       => resp.calls > 0 \/ (resp.path = "changelog" /\ ghToken # "set")

\* a read that found unparseable values in both tiers of the registry went
\* upstream and served what it fetched
C17_Witness ==
  /\ resp.path = "summary"
  /\ resp.primary = Corrupt /\ resp.stale = Corrupt
  /\ resp.up = "ok" /\ resp.calls = 1 /\ resp.status = 200
  /\ resp.body # <<>>
  /\ regKv.kind = "json" /\ regStaleKv.kind = "json"

\* C18: a read that finds a parseable value under the primary key of the
\* registry serves the entries of that value on every path that reads the
\* registry, whatever the stale key holds and however upstream would answer,
\* makes no registry call and leaves both keys as they are.
C18_PrimaryWins ==
  (resp.path \in RegistryPaths /\ parseRegistryEntries(resp.primary).ok)
    => LET cachedEntries == parseRegistryEntries(resp.primary).v
       IN /\ ServedRepos(resp) = [i \in DOMAIN cachedEntries |-> cachedEntries[i].repo]
          /\ resp.path \in {"tools", "summary"} => resp.body = cachedEntries
          /\ resp.path \in {"tools", "summary", "projects"} => resp.calls = 0
          /\ regKv = resp.primary /\ regStaleKv = resp.stale

\* the primary and the stale key held different parseable lists, upstream
\* would have answered, and the read served the primary one
C18_Witness ==
  /\ resp.path = "projects"
  /\ parseRegistryEntries(resp.primary).ok /\ parseRegistryEntries(resp.stale).ok
  /\ parseRegistryEntries(resp.primary).v # <<>>
  /\ parseRegistryEntries(resp.stale).v # parseRegistryEntries(resp.primary).v
  /\ resp.up = "ok"
  /\ resp.body = registryEntriesToProjects(parseRegistryEntries(resp.primary).v)

\* the upstream calls a GET /fleet/health with these inputs makes, when it has
\* to aggregate: the registry fetch if no parseable primary copy is stored,
\* and a run lookup for each listed repo that has no parseable cached run
RegistryCallMade == ~parseRegistryEntries(regKv).ok
RunCallsMade(up, registry) ==
  LET r == loadRegistryEntries(regKv, regStaleKv, up, registry)
  IN {q \in {r.entries[i].repo : i \in DOMAIN r.entries} :
        ~parseWorkflowRunCache(ciKv[q]).present}

\* C24: with a credential configured, when no parseable health snapshot is
\* stored and every upstream call of the request fails (the registry fetch
\* when the primary registry copy is missing, and every run lookup made),
\* GET /fleet/health answers 503.
C24_NoDataAnswers503 ==
  [][\A u \in {x \in Upstream({FleetRegistry}) : x.up # "throw"}, runs \in RepoRuns :
       (/\ GetFleetHealth(u.up, u.payload, runs)
        /\ ghToken = "set"
        /\ ~parseFleetHealthPayload(healthKv).ok
        /\ RegistryCallMade => u.up # "ok"
        /\ \A q \in RunCallsMade(u.up, u.payload) : runs[q].up # "ok"
        /\ RegistryCallMade \/ RunCallsMade(u.up, u.payload) # {})
         => resp'.status = 503]_vars

\* one read from a store of the cached datasets or of the fleet
UpstreamReadNext == resp.n = 0 /\ (CacheNext \/ FleetNext)

\* the registry entries a request worked on, read off the store it left: the
\* primary copy if it is parseable (found so, or just fetched), else the
\* stale copy, else none
ListedAfter ==
  IF parseRegistryEntries(regKv).ok THEN parseRegistryEntries(regKv).v
  ELSE IF parseRegistryEntries(regStaleKv).ok THEN parseRegistryEntries(regStaleKv).v
  ELSE <<>>

\* C26: within a single request each upstream resource is called at most
\* once, whether its call fails or not: one call at most to the registry, to
\* the changelog, to the events listing, to each of the two resources of the
\* stats, and to each listed repo's tasks file or run listing.
C26_AtMostOnce ==
  resp.n > 0 =>
    /\ resp.path \in {"tools", "projects", "summary", "changelog", "events"}
         => resp.calls <= 1
    /\ resp.path = "stats" => resp.calls <= 2
    /\ resp.path \in {"tasks", "trend"} => resp.calls <= 1 + Len(ListedAfter)
    /\ resp.path = "health"
         => /\ resp.calls - resp.ciCalls <= 1
            /\ resp.ciCalls <= Len(ListedAfter)

\* C26 witness: a GET /tasks whose registry call failed served the two repos
\* of the stale copy, with one call for each repo's tasks file: three calls
C26_Witness ==
  /\ resp.path = "tasks" /\ resp.up # "ok"
  /\ ~parseRegistryEntries(regKv).ok
  /\ Len(resp.body) = 2
  /\ resp.calls = 3

\* an aggregation: a GET /fleet/health that was not answered from a fresh
\* snapshot
AggregationStep == HealthStep /\ ~resp'.fresh

\* the repos an aggregation went through: those of its answer, or the listed
\* ones when a failing run lookup replaced the answer
AggregatedAfter == IF resp'.failed THEN ListedAfter' ELSE resp'.body.repos

\* the repos among `listed` whose run key is present and parseable in `kv`
CachedRepos(listed, kv) ==
  {q \in {listed[i].repo : i \in DOMAIN listed} : parseWorkflowRunCache(kv[q]).present}

\* the conclusion a stored run carries: its text, "null" for a run without
\* conclusion, "unknown" for an empty text
StoredConclusion(raw) ==
  LET run == parseWorkflowRunCache(raw)
  IN IF run.conclusion = NULL THEN "null"
     ELSE IF run.conclusion = "" THEN "unknown"
     ELSE run.conclusion

StoredEntriesAfter ==
  IF regKv'.kind = "json" THEN regKv'.v
  ELSE IF regStaleKv'.kind = "json" THEN regStaleKv'.v
  ELSE <<>>

\* C33: if a per-repo lookup fails during a fleet health aggregation, the
\* snapshot key is left exactly as it was; an answer changes the key only
\* when no lookup failed, and the snapshot it writes is the one it answers,
\* with one repo record per registry entry, in the order of the entries.
C33_SnapshotAllOrNothing ==
  [][HealthStep =>
       /\ resp'.failed => healthKv' = healthKv
       /\ healthKv' # healthKv =>
            /\ ~resp'.failed /\ ~resp'.fresh
            /\ healthKv'.kind = "json"
            /\ healthKv'.v = resp'.body
            /\ \A listed \in {StoredEntriesAfter} :
                 /\ Len(healthKv'.v.repos) = Len(listed)
                 /\ \A i \in DOMAIN listed : healthKv'.v.repos[i].repo = listed[i].repo]_vars

\* C33 witness: a lookup failed while the store held a snapshot of one repo,
\* which is still there; and (second conjunct of the theorem) the registry
\* lists two repos
C33_Witness ==
  /\ resp.path = "health" /\ resp.failed
  /\ healthKv.kind = "json"
  /\ Len(healthKv.v.repos) = 1
  /\ Len(ListedAfter) = 2
  /\ resp.ciCalls > 0

TOOLS_REGISTRY_TTL_SEC == 300
FLEET_CI_TTL_SEC == 600

\* lines 1314-1329: the repos whose run and trend keys join the six fixed keys,
\* taken from the registry copies in the store at the time of the call
collectCacheKeysToInvalidate(primaryRaw, staleRaw) ==
  LET p == parseRegistryEntries(primaryRaw)
      s == parseRegistryEntries(staleRaw)
      entries == (IF p.ok THEN p.v ELSE <<>>) \o (IF s.ok THEN s.v ELSE <<>>)
  IN {entries[i].repo : i \in DOMAIN entries}

\* POST /admin/refresh (lines 1737-1769).  invalidateCacheKey (lines
\* 1331-1338) deletes the key where the store has a delete, and otherwise puts
\* the empty string with a time to live of one second.
AdminRefresh(outcome, hasDelete) ==
  LET answer(status) ==
        [path |-> "refresh", up |-> "ok", primary |-> regKv, stale |-> regStaleKv,
         status |-> status, body |-> <<>>, calls |-> 0, n |-> resp.n]
      gone == IF hasDelete THEN Absent ELSE Corrupt
      goneRun == IF hasDelete THEN AbsentRun
                 ELSE RawRun("corrupt", RawConclusion("norun", ""))
      goneHealth == IF hasDelete THEN AbsentHealth
                    ELSE RawHealth("corrupt", NoSnapshot, now + 1000)
  IN IF outcome # "ok"
     THEN /\ resp' = answer(IF outcome = "unavailable" THEN 503 ELSE 401)
          /\ UNCHANGED <<ghToken, regKv, regStaleKv, chgKv, statsKv, eventsKv, trendKv,
                         fleetVars>>
     ELSE \E keys \in {collectCacheKeysToInvalidate(regKv, regStaleKv)} :
            /\ regKv' = gone /\ regStaleKv' = gone
            /\ healthKv' = goneHealth
            /\ statsKv' = gone /\ chgKv' = gone /\ eventsKv' = gone
            /\ ciKv' = [q \in Repos |-> IF q \in keys THEN goneRun ELSE ciKv[q]]
            /\ trendKv' = [q \in Repos |-> IF q \in keys THEN gone ELSE trendKv[q]]
            /\ resp' = answer(200)
            /\ UNCHANGED ghToken

\* Five minutes pass, counted from a time at which every key in the store is
\* less than five minutes old.  A primary registry key that /tools wrote (the
\* one writer that leaves the stale key alone) has outlived its time to live,
\* and so has every empty string a refresh put; the run keys (10 minutes) and
\* the registry keys of the other loader (1 hour, 7 days) have not.
ToolsTtlPasses ==
  LET kept(raw, absent) == IF raw.kind = "corrupt" THEN absent ELSE raw
  IN /\ now + TOOLS_REGISTRY_TTL_SEC * 1000 < FLEET_CI_TTL_SEC * 1000
     /\ Tick(TOOLS_REGISTRY_TTL_SEC * 1000)
     /\ regKv' = IF regStaleKv.kind # "json" THEN Absent ELSE regKv
     /\ regStaleKv' = kept(regStaleKv, Absent)
     /\ chgKv' = kept(chgKv, Absent)
     /\ statsKv' = kept(statsKv, Absent)
     /\ eventsKv' = kept(eventsKv, Absent)
     /\ trendKv' = [q \in Repos |-> kept(trendKv[q], Absent)]
     /\ ciKv' = [q \in Repos |-> kept(ciKv[q], AbsentRun)]
     /\ healthKv' = kept(healthKv, AbsentHealth)
     /\ UNCHANGED <<ghToken, resp>>

RefreshInit ==
  /\ ghToken \in {"absent", "blank", "set"}
  /\ regKv = Absent /\ regStaleKv = Absent
  /\ chgKv = Absent /\ statsKv = Absent /\ eventsKv = Absent
  /\ trendKv = [r \in Repos |-> Absent]
  /\ resp = NoResponse
  /\ FleetParked

\* from an empty store at time 0: reads of /tools and /fleet/health, refreshes,
\* and one passage of five minutes
RefreshNext ==
  \/ \E u \in Upstream({FleetRegistry}) :
       /\ resp.n < MaxRequests + 1
       /\ GetTools(u.up, u.payload)
       /\ UNCHANGED <<clockVars, fleetVars>> /\ FleetFrame
  \/ \E u \in {x \in Upstream({FleetRegistry}) : x.up # "throw"}, runs \in RepoRuns :
       /\ resp.n < MaxRequests + 1
       /\ GetFleetHealth(u.up, u.payload, runs)
       /\ UNCHANGED clockVars /\ FleetFrame
  \/ \E outcome \in {"ok", "unavailable", "unauthorized"}, hasDelete \in BOOLEAN :
       AdminRefresh(outcome, hasDelete) /\ UNCHANGED clockVars /\ FleetFrame
  \/ ToolsTtlPasses /\ FleetFrame

\* C37 as stated, for the run keys read by /fleet/health: the first read of
\* /fleet/health after an authorized refresh, made with a credential, finds no
\* snapshot and no cached run, and asks upstream for the run of every repo it
\* lists.
C37_RefreshedReadGoesUpstream ==
  [][(resp.path = "refresh" /\ resp.status = 200 /\ HealthStep /\ ghToken = "set")
       => /\ ~resp'.fresh
          /\ resp'.calls = resp'.ciCalls + 1
          /\ resp'.ciCalls = Len(StoredEntriesAfter)]_vars

\* C23: every successful upstream refresh of the tool registry writes the
\* fetched value to both the primary key and the stale shadow key, so that
\* right after the refresh the stale key exists and holds the same value as
\* the primary key.  (Of the upstream-backed datasets the registry is the one
\* that has a stale key at all.)
C23_RefreshWritesBoth ==
  [][(/\ resp'.n = resp.n + 1
      /\ resp'.path \in RegistryPaths
      /\ ~parseRegistryEntries(regKv).ok
      /\ resp'.up = "ok")
       => /\ regKv'.kind = "json"
          /\ regStaleKv' = regKv']_vars

(***************************************************************************)
(* Presence and history: the keys written by set-presence, heartbeat and   *)
(* admin activity                                                          *)
(***************************************************************************)
HISTORY_LIMIT == 20

\* the longest run of appends explored, and the number of appending requests
\* (the first ones of a run) that may carry a batch or their own timestamps
MaxAppends == 25
MaxVaried == 2

\* One element of a history list, stored or submitted.  hasTs says whether it
\* carries a finite number under "timestamp"; desc names the entry: the n-th
\* entry appended in a run carries the description n, and 0 stands for an
\* element without a description of its own ("activity").
HistoryEntry(hasTs, timestamp, desc) ==
  [hasTs |-> hasTs, timestamp |-> timestamp, desc |-> desc]

\* A raw value under "history": kind "null" (absent or ""), "corrupt" (not
\* JSON), "object" (JSON that is not an array) or "array"
RawHistory(kind, v) == [kind |-> kind, v |-> v]
AbsentHistory == RawHistory("null", <<>>)
EmptyHistory == RawHistory("array", <<>>)

\* safeParseJSON(historyRaw || "[]", []): the fallback for a missing or
\* unparseable value
safeParseJSON(raw, fallback) ==
  IF raw.kind \in {"null", "corrupt"} THEN fallback ELSE raw

toHistoryEntry(value, fallbackTimestamp) ==
  HistoryEntry(TRUE,
               IF value.hasTs THEN value.timestamp ELSE fallbackTimestamp,
               value.desc)

\* index counts from 0 in the code, from 1 here
normalizeHistory(history, t) ==
  IF history.kind # "array" THEN <<>>
  ELSE [index \in 1..Len(Slice(history.v, HISTORY_LIMIT)) |->
          toHistoryEntry(history.v[index], t - (index - 1))]

persistHistory_noSlice(history) == RawHistory("array", history)

\* JSON.stringify(history.slice(0, HISTORY_LIMIT)), the value every append puts
persistHistory(history) == RawHistory("array", Slice(history, HISTORY_LIMIT))

\* A raw value under LAST_SEEN_KEY or "started": kind "null" (absent), "nan"
\* (a string that Number() does not turn into a finite number) or "num"
RawNumber(kind, v) == [kind |-> kind, v |-> v]
AbsentNumber == RawNumber("null", 0)
\* String(now)
StringOf(t) == RawNumber("num", t)
\* Number(raw): Number(null) is 0
NumberOf(raw) ==
  IF raw.kind = "null" THEN [finite |-> TRUE, v |-> 0]
  ELSE IF raw.kind = "num" THEN [finite |-> TRUE, v |-> raw.v]
  ELSE [finite |-> FALSE, v |-> 0]

\* A raw value under "presence": kind "null", "corrupt" or "json"; hasTs says
\* whether the object carries a number under "timestamp"
RawPresence(kind, state, hasTs, timestamp, expiresAt) ==
  [kind |-> kind, state |-> state, hasTs |-> hasTs, timestamp |-> timestamp,
   expiresAt |-> expiresAt]
AbsentPresence == RawPresence("null", "", FALSE, 0, 0)
PRESENCE_TTL_SEC == 1800

\* the response of a presence or history request, with the time it was
\* answered at and the limit parameter it carried
PresenceResponse(path, status, history, limit) ==
  [path |-> path, status |-> status, history |-> history, limit |-> limit,
   at |-> now]
NoLimit == [kind |-> "absent", tenths |-> 0]
NoPresenceResponse ==
  [path |-> "", status |-> "", history |-> <<>>, limit |-> NoLimit, at |-> 0]
\* the body {success: true} of an accepted mutation
Accepted(path) == PresenceResponse(path, "success", <<>>, NoLimit)

\* an execution inside an appending handler: "idle" outside it, "read" between
\* its get of "history" and its put, holding the handler's path and the list
\* it is about to put
Appender(pc, path, next) == [pc |-> pc, path |-> path, next |-> next]

NoAppender == Appender("idle", "", AbsentHistory)

AppendersParked ==
  /\ hInFlight = [p \in Racers |-> NoAppender]
  /\ hSupplied = {}

PresenceParked ==
  /\ AppendersParked
  /\ historyKv = AbsentHistory
  /\ lastSeenKv = AbsentNumber
  /\ presenceKv = AbsentPresence
  /\ startedKv = AbsentNumber
  /\ teamKv = Absent
  /\ tasksKv = Absent
  /\ appended = 0
  /\ appendCalls = 0
  /\ presResp = NoPresenceResponse

\* what a request submits as one history element: without a timestamp, or
\* with one of its own (10 ms before the run starts)
OwnTimestamp == 0 - 10
Activities(desc) ==
  {HistoryEntry(FALSE, 0, desc), HistoryEntry(TRUE, OwnTimestamp, desc)}

\* the team object a set-presence merges into the stored one, as the set of
\* its keys
TeamOf(raw) == IF raw.kind = "json" THEN raw.v ELSE {}

\* an appending request is explored while the run has room for its entries
MayAppend(k) == appended + k <= MaxAppends

\* POST /set-presence, authorized, with a valid body
SetPresence(activity, state, team, hasTasks) ==
  /\ MayAppend(1)
  /\ tasksKv' = IF hasTasks THEN stringify(<<>>) ELSE tasksKv
  /\ teamKv' = stringify(TeamOf(teamKv) \cup team)
  /\ historyKv' =
       persistHistory(<<toHistoryEntry(activity, now)>>
                      \o normalizeHistory(safeParseJSON(historyKv, EmptyHistory), now))
  /\ lastSeenKv' = StringOf(now)
  /\ presenceKv' = RawPresence("json", IF trim(state) # "" THEN trim(state) ELSE "active",
                               TRUE, now,
                               now + PRESENCE_TTL_SEC * 1000)
  /\ appended' = appended + 1
  /\ appendCalls' = appendCalls + 1
  /\ presResp' = Accepted("set-presence")
  /\ UNCHANGED <<startedKv, clockVars>>

unshiftBatch_ascending(batch, history, t) ==
  [i \in 1..Len(batch) |->
     toHistoryEntry(batch[Len(batch) + 1 - i], t - (Len(batch) - i))] \o history

\* the batch of a heartbeat on top of the stored list: batch[0] ends first
unshiftBatch(batch, history, t) ==
  [i \in 1..Len(batch) |-> toHistoryEntry(batch[i], t - (i - 1))] \o history

Heartbeat_batchOnly(batch) ==
  /\ MayAppend(Len(batch))
  /\ historyKv' =
       IF Len(batch) > 0
       THEN persistHistory(unshiftBatch(batch,
              normalizeHistory(safeParseJSON(historyKv, EmptyHistory), now), now))
       ELSE historyKv
  /\ lastSeenKv' = IF Len(batch) > 0 THEN StringOf(now) ELSE lastSeenKv
  /\ startedKv' = IF NumberOf(startedKv).finite THEN startedKv ELSE StringOf(now)
  /\ appended' = appended + Len(batch)
  /\ appendCalls' = IF Len(batch) > 0 THEN appendCalls + 1 ELSE appendCalls
  /\ presResp' = Accepted("heartbeat")
  /\ UNCHANGED <<presenceKv, teamKv, tasksKv, clockVars>>

\* POST /heartbeat, authorized, with a valid body; the batch may be empty
Heartbeat(batch) ==
  /\ MayAppend(Len(batch))
  /\ historyKv' =
       IF Len(batch) > 0
       THEN persistHistory(unshiftBatch(batch,
              normalizeHistory(safeParseJSON(historyKv, EmptyHistory), now), now))
       ELSE historyKv
  /\ lastSeenKv' = StringOf(now)
  /\ startedKv' = IF NumberOf(startedKv).finite THEN startedKv ELSE StringOf(now)
  /\ appended' = appended + Len(batch)
  /\ appendCalls' = IF Len(batch) > 0 THEN appendCalls + 1 ELSE appendCalls
  /\ presResp' = Accepted("heartbeat")
  /\ UNCHANGED <<presenceKv, teamKv, tasksKv, clockVars>>

\* POST /admin/activity, authorized, with a desc and a type
AdminActivity(desc) ==
  /\ MayAppend(1)
  /\ historyKv' =
       persistHistory(<<toHistoryEntry(HistoryEntry(FALSE, 0, desc), now)>>
                      \o normalizeHistory(safeParseJSON(historyKv, EmptyHistory), now))
  /\ appended' = appended + 1
  /\ appendCalls' = appendCalls + 1
  /\ presResp' = Accepted("admin/activity")
  /\ UNCHANGED <<lastSeenKv, presenceKv, startedKv, teamKv, tasksKv, clockVars>>

\* the batches a heartbeat submits: none, two entries (the second with its
\* own timestamp), and one more than the list keeps
Batches(first) ==
  { <<>>,
    <<HistoryEntry(FALSE, 0, first + 2), HistoryEntry(TRUE, OwnTimestamp, first + 1)>>,
    [i \in 1..(HISTORY_LIMIT + 1) |-> HistoryEntry(FALSE, 0, first + HISTORY_LIMIT + 2 - i)] }

\* the lists found under "history" when a run starts
StoredLists ==
  { <<>>,
    <<HistoryEntry(TRUE, 0 - 30, 0), HistoryEntry(FALSE, 0, 0), HistoryEntry(TRUE, 0 - 20, 0)>>,
    [i \in 1..HISTORY_LIMIT |-> HistoryEntry(TRUE, i - 100, 0)],
    [i \in 1..(HISTORY_LIMIT + 5) |-> HistoryEntry(TRUE, i - 100, 0)] }
HistoryInitKv ==
  {AbsentHistory, RawHistory("corrupt", <<>>), RawHistory("object", <<>>)}
    \cup {RawHistory("array", l) : l \in StoredLists}

\* the limit query parameter: absent, a text Number() turns into NaN, the
\* text "Infinity", or a finite number, written in tenths (39 is 3.9)
LimitParam(kind, tenths) == [kind |-> kind, tenths |-> tenths]
LimitParams ==
  {LimitParam("absent", 0), LimitParam("text", 0), LimitParam("infinity", 0)}
    \cup {LimitParam("number", n) :
            n \in {0 - 10, 0, 5, 39, 10 * HISTORY_LIMIT, 10 * HISTORY_LIMIT + 1,
                   10 * HISTORY_LIMIT + 50}}

effectiveLimit_noClamp(param) ==
  IF param.kind = "number" /\ param.tenths > 0 THEN param.tenths \div 10
  ELSE HISTORY_LIMIT

\* lines 1670-1673: Number(null) is 0, Number of a text is NaN
effectiveLimit_atLeastOne(param) ==
  IF param.kind = "number" /\ param.tenths > 0
  THEN (IF HISTORY_LIMIT < param.tenths \div 10 THEN HISTORY_LIMIT
        ELSE IF param.tenths \div 10 < 1 THEN 1
        ELSE param.tenths \div 10)
  ELSE HISTORY_LIMIT

effectiveLimit(param) ==
  IF param.kind = "number" /\ param.tenths > 0
  THEN (IF HISTORY_LIMIT < param.tenths \div 10 THEN HISTORY_LIMIT
        ELSE param.tenths \div 10)
  ELSE HISTORY_LIMIT

SortByTimestamp_stored(seq) == seq

\* Array.prototype.sort((a, b) => b.timestamp - a.timestamp): stable,
\* greatest timestamp first
RECURSIVE InsertByTimestamp(_, _)
InsertByTimestamp(sorted, e) ==
  IF sorted = <<>> THEN <<e>>
  ELSE IF Head(sorted).timestamp >= e.timestamp
       THEN <<Head(sorted)>> \o InsertByTimestamp(Tail(sorted), e)
       ELSE <<e>> \o sorted
RECURSIVE SortByTimestamp(_)
SortByTimestamp(seq) ==
  IF seq = <<>> THEN <<>>
  ELSE InsertByTimestamp(SortByTimestamp(SubSeq(seq, 1, Len(seq) - 1)), seq[Len(seq)])

\* lines 1675-1678: every stored element, not only the first HISTORY_LIMIT
historyEntries(raw, t) ==
  LET source == safeParseJSON(raw, EmptyHistory)
      list == IF source.kind = "array" THEN source.v ELSE <<>>
  IN  [index \in 1..Len(list) |-> toHistoryEntry(list[index], t - (index - 1))]

\* lines 1675-1680
historyView(raw, t, limit) == Slice(SortByTimestamp(historyEntries(raw, t)), limit)

\* GET /history
GetHistory(param) ==
  /\ \E view \in {historyView(historyKv, now, effectiveLimit(param))} :
       presResp' = PresenceResponse("history", "", view, param)
  /\ UNCHANGED <<historyKv, lastSeenKv, presenceKv, startedKv, teamKv, tasksKv,
                 appended, appendCalls, clockVars>>

HistoryInit ==
  /\ AppendersParked
  /\ historyKv \in HistoryInitKv
  /\ lastSeenKv = AbsentNumber
  /\ presenceKv = AbsentPresence
  /\ startedKv = RawNumber("nan", 0)
  /\ teamKv = Absent
  /\ tasksKv = Absent
  /\ appended = 0
  /\ appendCalls = 0
  /\ presResp = NoPresenceResponse

\* runs of appends: after the first MaxVaried appending requests, single
\* entries without a timestamp of their own
HistoryNext ==
  \/ \E a \in Activities(appended + 1) :
       /\ a.hasTs => appendCalls < MaxVaried
       /\ SetPresence(a, "active", {1}, a.hasTs)
       /\ PresenceFrame
  \/ \E b \in Batches(appended) :
       appendCalls < MaxVaried /\ Heartbeat(b) /\ PresenceFrame
  \/ AdminActivity(appended + 1) /\ PresenceFrame

\* the clock advances at most once between two appending requests
HistoryTick == ticks <= appendCalls /\ Tick(1)

\* a few appends, then reads
HistoryReadNext ==
  \/ \E a \in Activities(appended + 1) :
       appendCalls < MaxRequests /\ SetPresence(a, "active", {1}, a.hasTs) /\ PresenceFrame
  \/ \E b \in {x \in Batches(appended) : Len(x) = 2} :
       appendCalls < MaxRequests /\ Heartbeat(b) /\ PresenceFrame
  \/ \E p \in LimitParams : GetHistory(p) /\ PresenceFrame
  \/ HistoryTick /\ UNCHANGED presenceVars /\ PresenceFrame

\* C11: once anything has been appended, the persisted history is a list of
\* at most 20 entries whose front holds the most recently appended entries,
\* newest first: after n appends the first min(n, 20) entries are the entries
\* n, n-1, ...; so 25 single appends to an empty history leave exactly the
\* entries 25 down to 6.
C11_HistoryBounded ==
  appended > 0 =>
    /\ historyKv.kind = "array"
    /\ Len(historyKv.v) <= HISTORY_LIMIT
    /\ appended >= HISTORY_LIMIT => Len(historyKv.v) = HISTORY_LIMIT
    /\ \A i \in 1..Len(historyKv.v) :
         i <= appended => historyKv.v[i].desc = appended + 1 - i

\* 25 single appends have left the entries 25 down to 6
C11_Witness ==
  /\ appended = HISTORY_LIMIT + 5
  /\ appendCalls = HISTORY_LIMIT + 5
  /\ Len(historyKv.v) = HISTORY_LIMIT
  /\ historyKv.v[1].desc = HISTORY_LIMIT + 5
  /\ historyKv.v[HISTORY_LIMIT].desc = 6

\* the number of times e occurs in seq
Occurrences(seq, e) == Cardinality({i \in 1..Len(seq) : seq[i] = e})

\* C12: GET /history answers entries of the stored list, greatest timestamp
\* first whatever order they are stored in, at most min(limit, 20) of them,
\* and every stored entry it leaves out has a timestamp no greater than the
\* timestamps it returns.
C12_NewestFirst ==
  presResp.path = "history" =>
    LET view == presResp.history
        stored == historyEntries(historyKv, presResp.at)
    IN  /\ \A i, j \in 1..Len(view) : i < j => view[i].timestamp >= view[j].timestamp
        /\ Len(view) <= HISTORY_LIMIT
        /\ (presResp.limit.kind = "number" /\ presResp.limit.tenths > 0)
             => 10 * Len(view) <= presResp.limit.tenths
        /\ \A i \in 1..Len(view) :
             Occurrences(view, view[i]) <= Occurrences(stored, view[i])
        /\ \A k \in 1..Len(stored) :
             Occurrences(view, stored[k]) < Occurrences(stored, stored[k])
               => \A i \in 1..Len(view) : view[i].timestamp >= stored[k].timestamp

\* a list stored oldest first, longer than the limit, is answered newest first
C12_Witness ==
  /\ presResp.path = "history"
  /\ historyKv.kind = "array" /\ Len(historyKv.v) > HISTORY_LIMIT
  /\ historyKv.v[1].timestamp < historyKv.v[2].timestamp
  /\ Len(presResp.history) = 3
  /\ presResp.history[1].timestamp > presResp.history[3].timestamp
  /\ presResp.history[1] = historyKv.v[Len(historyKv.v)]

\* the limit as the parameter states it
LimitAsStated(param) ==
  IF param.kind \in {"absent", "text"} THEN HISTORY_LIMIT
  ELSE IF param.kind = "infinity" THEN HISTORY_LIMIT
  ELSE IF param.tenths <= 0 THEN HISTORY_LIMIT
  ELSE IF param.tenths > 10 * HISTORY_LIMIT THEN HISTORY_LIMIT
  ELSE param.tenths \div 10

\* C13: GET /history answers min(number of stored entries, effective limit)
\* entries, where the effective limit is 20 for an absent, non-numeric, zero
\* or negative limit and for a limit above 20, and the floor of the value
\* otherwise.
C13_EffectiveLimit ==
  presResp.path = "history" =>
    LET n == Len(historyEntries(historyKv, presResp.at))
        l == LimitAsStated(presResp.limit)
    IN  Len(presResp.history) = IF n < l THEN n ELSE l

\* limit=3.9 answers exactly 3 of at least 3 stored entries
C13_Witness ==
  /\ presResp.path = "history"
  /\ presResp.limit = LimitParam("number", 39)
  /\ Len(historyEntries(historyKv, presResp.at)) >= 3
  /\ Len(presResp.history) = 3

(***************************************************************************)
(* Heartbeat batches and the reads that follow them                        *)
(***************************************************************************)
\* the batches a heartbeat submits here: three entries without timestamp,
\* three of which the second carries its own, and one more than the list
\* keeps; entry i of a batch of k carries the description first + k + 1 - i
HeartbeatBatches(first) ==
  { [i \in 1..3 |-> HistoryEntry(FALSE, 0, first + 4 - i)],
    [i \in 1..3 |-> IF i = 2 THEN HistoryEntry(TRUE, OwnTimestamp, first + 4 - i)
                              ELSE HistoryEntry(FALSE, 0, first + 4 - i)],
    [i \in 1..(HISTORY_LIMIT + 1) |-> HistoryEntry(FALSE, 0, first + HISTORY_LIMIT + 2 - i)] }

HeartbeatReadNext ==
  \/ \E b \in HeartbeatBatches(appended) :
       appendCalls < MaxRequests /\ Heartbeat(b) /\ PresenceFrame
  \/ GetHistory(LimitParam("absent", 0)) /\ PresenceFrame
  \/ HistoryTick /\ UNCHANGED presenceVars /\ PresenceFrame

\* the place of the entry described d in a list
PlaceOf(list, d) == CHOOSE p \in DOMAIN list : list[p].desc = d

\* C34: a heartbeat with a batch h[0..k-1] stores the batch at the front of
\* the persisted list in batch order, ahead of the entries stored before
\* (kept in their order, as far as the list of 20 has room); a batch entry
\* without timestamp gets now - i for its index i, one with a timestamp keeps
\* it; and the sort of a read puts the entries that got a fallback timestamp
\* in batch order.
C34_BatchInOrder ==
  [][\A b \in HeartbeatBatches(appended) :
       Heartbeat(b) =>
         \A old \in {IF historyKv.kind = "array" THEN Slice(historyKv.v, HISTORY_LIMIT)
                       ELSE <<>>} :
           \A m \in {IF Len(b) < HISTORY_LIMIT THEN Len(b) ELSE HISTORY_LIMIT} :
             /\ historyKv'.kind = "array"
             /\ Len(historyKv'.v) = IF Len(b) + Len(old) < HISTORY_LIMIT
                                      THEN Len(b) + Len(old) ELSE HISTORY_LIMIT
             /\ \A i \in 1..m :
                  /\ historyKv'.v[i].desc = b[i].desc
                  /\ historyKv'.v[i].hasTs
                  /\ historyKv'.v[i].timestamp
                       = IF b[i].hasTs THEN b[i].timestamp ELSE now - (i - 1)
             /\ \A j \in 1..(Len(historyKv'.v) - m) :
                  /\ historyKv'.v[m + j].desc = old[j].desc
                  /\ old[j].hasTs => historyKv'.v[m + j].timestamp = old[j].timestamp
             /\ \A view \in {historyView(historyKv', now, HISTORY_LIMIT)} :
                  \A i, j \in 1..m :
                    (i < j /\ ~b[i].hasTs /\ ~b[j].hasTs)
                      => PlaceOf(view, b[i].desc) < PlaceOf(view, b[j].desc)]_vars

\* C34 witness: a read after a heartbeat of three entries without timestamp,
\* sent at a time t > 0 on top of a stored list: the three come first in
\* batch order with the timestamps t, t-1, t-2, the stored entries behind
C34_Witness ==
  /\ presResp.path = "history"
  /\ appendCalls = 1 /\ appended = 3
  /\ Len(presResp.history) > 3
  /\ presResp.history[1].timestamp > 0
  /\ \A i \in 1..3 :
       /\ presResp.history[i].desc = 4 - i
       /\ presResp.history[i].timestamp = presResp.history[1].timestamp - (i - 1)
       /\ presResp.history[i] = historyKv.v[i]
  /\ presResp.history[4].desc = 0

(***************************************************************************)
(* Concurrent appends: the get and the put of "history" are two steps of   *)
(* an appending handler                                                    *)
(***************************************************************************)
\* the i-th element of a list stored before the run: description -i
InitialEntry(i, hasTs) == HistoryEntry(hasTs, IF hasTs THEN i - 100 ELSE 0, 0 - i)

\* the lists found under "history" when a run of concurrent appends starts:
\* two entries (the first without timestamp), one entry less than the list
\* keeps, and five more than it keeps
AppendStoredLists ==
  { <<InitialEntry(1, FALSE), InitialEntry(2, TRUE)>>,
    [i \in 1..(HISTORY_LIMIT - 1) |-> InitialEntry(i, TRUE)],
    [i \in 1..(HISTORY_LIMIT + 5) |-> InitialEntry(i, TRUE)] }

AppendInitKv ==
  {AbsentHistory, RawHistory("corrupt", <<>>)}
    \cup {RawHistory("array", l) : l \in AppendStoredLists}

EntriesOf(raw) == IF raw.kind = "array" THEN {raw.v[i] : i \in DOMAIN raw.v} ELSE {}

AppendInit ==
  /\ historyKv \in AppendInitKv
  /\ hSupplied = EntriesOf(historyKv)
  /\ hInFlight = [p \in Racers |-> NoAppender]
  /\ lastSeenKv = AbsentNumber
  /\ presenceKv = AbsentPresence
  /\ startedKv = RawNumber("nan", 0)
  /\ teamKv = Absent
  /\ tasksKv = Absent
  /\ appended = 0
  /\ appendCalls = 0
  /\ presResp = NoPresenceResponse

\* appending requests started so far: the completed ones and those in flight
AppendsStarted == appendCalls + Cardinality({p \in Racers : hInFlight[p].pc = "read"})

\* POST /set-presence up to its get of "history" and the list it builds from
\* it (lines 1579-1591)
SetPresenceRead(p, activity, team, hasTasks) ==
  /\ hInFlight[p].pc = "idle"
  /\ AppendsStarted < MaxRequests
  /\ tasksKv' = IF hasTasks THEN stringify(<<>>) ELSE tasksKv
  /\ teamKv' = stringify(TeamOf(teamKv) \cup team)
  /\ hInFlight' =
       [hInFlight EXCEPT ![p] =
          Appender("read", "set-presence",
                   persistHistory(<<toHistoryEntry(activity, now)>>
                     \o normalizeHistory(safeParseJSON(historyKv, EmptyHistory), now)))]
  /\ hSupplied' = hSupplied \cup {activity}
  /\ appended' = appended + 1
  /\ UNCHANGED <<historyKv, lastSeenKv, presenceKv, startedKv, appendCalls, presResp,
                 clockVars>>

\* POST /heartbeat with a batch, up to its get of "history" and the list it
\* builds from it (lines 1638-1645)
HeartbeatRead(p, batch) ==
  /\ hInFlight[p].pc = "idle"
  /\ AppendsStarted < MaxRequests
  /\ Len(batch) > 0
  /\ hInFlight' =
       [hInFlight EXCEPT ![p] =
          Appender("read", "heartbeat",
                   persistHistory(unshiftBatch(batch,
                     normalizeHistory(safeParseJSON(historyKv, EmptyHistory), now), now)))]
  /\ hSupplied' = hSupplied \cup {batch[i] : i \in DOMAIN batch}
  /\ appended' = appended + Len(batch)
  /\ UNCHANGED <<historyKv, lastSeenKv, presenceKv, startedKv, teamKv, tasksKv,
                 appendCalls, presResp, clockVars>>

\* POST /admin/activity up to its get of "history" and the list it builds
\* from it (lines 1979-1983)
AdminActivityRead(p, desc) ==
  /\ hInFlight[p].pc = "idle"
  /\ AppendsStarted < MaxRequests
  /\ hInFlight' =
       [hInFlight EXCEPT ![p] =
          Appender("read", "admin/activity",
                   persistHistory(<<toHistoryEntry(HistoryEntry(FALSE, 0, desc), now)>>
                     \o normalizeHistory(safeParseJSON(historyKv, EmptyHistory), now)))]
  /\ hSupplied' = hSupplied \cup {HistoryEntry(FALSE, 0, desc)}
  /\ appended' = appended + 1
  /\ UNCHANGED <<historyKv, lastSeenKv, presenceKv, startedKv, teamKv, tasksKv,
                 appendCalls, presResp, clockVars>>

AppendWrite_concat(p) ==
  /\ hInFlight[p].pc = "read"
  /\ historyKv' =
       RawHistory("array",
                  hInFlight[p].next.v
                    \o normalizeHistory(safeParseJSON(historyKv, EmptyHistory), now))
  /\ lastSeenKv' = IF hInFlight[p].path = "admin/activity" THEN lastSeenKv ELSE StringOf(now)
  /\ presenceKv' = IF hInFlight[p].path = "set-presence"
                     THEN RawPresence("json", "active", TRUE, now,
                                      now + PRESENCE_TTL_SEC * 1000)
                     ELSE presenceKv
  /\ startedKv' = IF hInFlight[p].path = "heartbeat" /\ ~NumberOf(startedKv).finite
                    THEN StringOf(now) ELSE startedKv
  /\ appendCalls' = appendCalls + 1
  /\ presResp' = Accepted(hInFlight[p].path)
  /\ hInFlight' = [hInFlight EXCEPT ![p] = NoAppender]
  /\ UNCHANGED <<teamKv, tasksKv, appended, hSupplied, clockVars>>

\* the put of "history" and what the handler does after it: set-presence
\* lines 1592-1600, heartbeat lines 1645-1660, admin activity lines 1984-1986
AppendWrite(p) ==
  /\ hInFlight[p].pc = "read"
  /\ historyKv' = hInFlight[p].next
  /\ lastSeenKv' = IF hInFlight[p].path = "admin/activity" THEN lastSeenKv ELSE StringOf(now)
  /\ presenceKv' = IF hInFlight[p].path = "set-presence"
                     THEN RawPresence("json", "active", TRUE, now,
                                      now + PRESENCE_TTL_SEC * 1000)
                     ELSE presenceKv
  /\ startedKv' = IF hInFlight[p].path = "heartbeat" /\ ~NumberOf(startedKv).finite
                    THEN StringOf(now) ELSE startedKv
  /\ appendCalls' = appendCalls + 1
  /\ presResp' = Accepted(hInFlight[p].path)
  /\ hInFlight' = [hInFlight EXCEPT ![p] = NoAppender]
  /\ UNCHANGED <<teamKv, tasksKv, appended, hSupplied, clockVars>>

\* the clock advances at most once per appending request
AppendTick == ticks < AppendsStarted /\ ticks < MaxTicks /\ Tick(1)

AppendRaceNext ==
  \/ \E p \in Racers, a \in Activities(appended + 1) :
       SetPresenceRead(p, a, {1}, a.hasTs) /\ AppenderFrame
  \/ \E p \in Racers, b \in {x \in Batches(appended) : Len(x) > 0} :
       HeartbeatRead(p, b) /\ AppenderFrame
  \/ \E p \in Racers : AdminActivityRead(p, appended + 1) /\ AppenderFrame
  \/ \E p \in Racers : AppendWrite(p) /\ AppenderFrame
  \/ AppendTick /\ UNCHANGED <<presenceVars, appenderVars>> /\ AppenderFrame

\* entry e as persisted is the submitted element s: the same description,
\* the timestamp s carried, or one taken from the clock when s carried none
PersistedFrom(e, s) ==
  /\ e.desc = s.desc
  /\ s.hasTs => e.hasTs /\ e.timestamp = s.timestamp
  /\ (e.hasTs /\ ~s.hasTs) => e.timestamp <= now /\ e.timestamp > 0 - (HISTORY_LIMIT + 1)

\* C30: under every interleaving of concurrent appends, once an append has
\* written, the persisted history is a list of at most 20 entries, and at
\* every moment each persisted entry is an element of the initial list or
\* one supplied by some append; none is invented.  (An append can be lost to
\* a concurrent writer: the witness reaches it.)
C30_NoInvention ==
  /\ appendCalls > 0 => historyKv.kind = "array" /\ Len(historyKv.v) <= HISTORY_LIMIT
  /\ \A e \in EntriesOf(historyKv) : \E s \in hSupplied : PersistedFrom(e, s)

\* C30 witness: two appends that overlapped have both written, the list has
\* room left, and the entry of the one that wrote first is not in it
C30_Witness ==
  /\ appendCalls = 2
  /\ \A p \in Racers : hInFlight[p].pc = "idle"
  /\ historyKv.kind = "array"
  /\ Len(historyKv.v) < HISTORY_LIMIT
  /\ \E s \in hSupplied :
       /\ s.desc > 0
       /\ \A e \in EntriesOf(historyKv) : e.desc # s.desc
  /\ \E e \in EntriesOf(historyKv) : e.desc > 0

(***************************************************************************)
(* Presence: the offline detector and the reads that report a status       *)
(***************************************************************************)
STATUS_OFFLINE_THRESHOLD_MS == 10 * 60 * 1000

\* typeof lastSeenRaw === "string" ? Number(lastSeenRaw) : NaN
lastSeenOf(lastSeenRaw) ==
  IF lastSeenRaw.kind = "null" THEN [finite |-> FALSE, v |-> 0]
  ELSE NumberOf(lastSeenRaw)

getStatusPayload_strict(lastSeenRaw, t) ==
  IF ~lastSeenOf(lastSeenRaw).finite
       \/ t - lastSeenOf(lastSeenRaw).v >= STATUS_OFFLINE_THRESHOLD_MS
  THEN "offline" ELSE "operational"

\* the status field of the payload
getStatusPayload(lastSeenRaw, t) ==
  IF ~lastSeenOf(lastSeenRaw).finite
       \/ t - lastSeenOf(lastSeenRaw).v > STATUS_OFFLINE_THRESHOLD_MS
  THEN "offline" ELSE "operational"

getStatusUptimePayload(lastSeenRaw, t) ==
  IF ~lastSeenOf(lastSeenRaw).finite
       \/ t - lastSeenOf(lastSeenRaw).v > STATUS_OFFLINE_THRESHOLD_MS
  THEN "offline" ELSE "operational"

\* GET /health
GetHealth ==
  /\ presResp' = PresenceResponse("health", getStatusPayload(lastSeenKv, now), <<>>, NoLimit)
  /\ UNCHANGED <<historyKv, lastSeenKv, presenceKv, startedKv, teamKv, tasksKv,
                 appended, appendCalls, clockVars>>

\* GET /status/uptime
GetStatusUptime ==
  /\ presResp' = PresenceResponse("uptime", getStatusUptimePayload(lastSeenKv, now),
                                  <<>>, NoLimit)
  /\ UNCHANGED <<historyKv, lastSeenKv, presenceKv, startedKv, teamKv, tasksKv,
                 appended, appendCalls, clockVars>>

\* presence?.state || <fallback>, for safeParseJSON(presenceRaw, null)
presenceState(raw) ==
  IF raw.kind = "json" /\ raw.state # "" THEN raw.state ELSE "active"

lastSeenMs_heartbeatOnly(lastSeenRaw, presenceRaw, t) ==
  IF lastSeenOf(lastSeenRaw).finite THEN lastSeenOf(lastSeenRaw).v ELSE t

\* lines 2152-2158: the heartbeat's last_seen, else the presence timestamp,
\* else the time of the request
lastSeenMs(lastSeenRaw, presenceRaw, t) ==
  IF lastSeenOf(lastSeenRaw).finite THEN lastSeenOf(lastSeenRaw).v
  ELSE IF presenceRaw.kind = "json" /\ presenceRaw.hasTs THEN presenceRaw.timestamp
  ELSE t

\* lines 2159-2163
nowStatus(lastSeenRaw, presenceRaw, t) ==
  IF t - lastSeenMs(lastSeenRaw, presenceRaw, t) > STATUS_OFFLINE_THRESHOLD_MS
  THEN "offline" ELSE presenceState(presenceRaw)

\* GET /now
GetNow ==
  /\ startedKv' = IF NumberOf(startedKv).finite THEN startedKv ELSE StringOf(now)
  /\ presResp' = PresenceResponse("now", nowStatus(lastSeenKv, presenceKv, now),
                   normalizeHistory(safeParseJSON(historyKv, EmptyHistory), now), NoLimit)
  /\ UNCHANGED <<historyKv, lastSeenKv, presenceKv, teamKv, tasksKv,
                 appended, appendCalls, clockVars>>

\* GET /pulse; the history field holds the entry behind last_event_desc
GetPulse ==
  /\ presResp' = PresenceResponse("pulse", presenceState(presenceKv),
                   Slice(normalizeHistory(safeParseJSON(historyKv, EmptyHistory), now), 1),
                   NoLimit)
  /\ UNCHANGED <<historyKv, lastSeenKv, presenceKv, startedKv, teamKv, tasksKv,
                 appended, appendCalls, clockVars>>

\* the presence key reaches its expirationTtl
PresenceKeyExpires ==
  /\ presenceKv.kind # "null"
  /\ now >= presenceKv.expiresAt
  /\ presenceKv' = AbsentPresence
  /\ UNCHANGED <<historyKv, lastSeenKv, startedKv, teamKv, tasksKv, appended,
                 appendCalls, presResp, clockVars>>

PresenceTickSteps == {1, STATUS_OFFLINE_THRESHOLD_MS - 1}

\* the values found under last_seen and "presence" when a run starts; the
\* stored presence was written with a ttl of 10 minutes
PresenceInit ==
  /\ historyKv = AbsentHistory
  /\ lastSeenKv \in {AbsentNumber, RawNumber("nan", 0), StringOf(0)}
  /\ presenceKv \in
       { AbsentPresence,
         RawPresence("corrupt", "", FALSE, 0, STATUS_OFFLINE_THRESHOLD_MS),
         RawPresence("json", "busy", TRUE, 0, STATUS_OFFLINE_THRESHOLD_MS),
         RawPresence("json", "offline", FALSE, 0, STATUS_OFFLINE_THRESHOLD_MS),
         RawPresence("json", "", FALSE, 0, STATUS_OFFLINE_THRESHOLD_MS) }
  /\ startedKv = RawNumber("nan", 0)
  /\ teamKv = Absent
  /\ tasksKv = Absent
  /\ appended = 0
  /\ appendCalls = 0
  /\ presResp = NoPresenceResponse
  /\ AppendersParked

PresenceNext ==
  \/ Heartbeat(<<>>) /\ PresenceFrame
  \/ appendCalls < MaxRequests
       /\ SetPresence(HistoryEntry(FALSE, 0, appended + 1), "active", {1}, FALSE)
       /\ PresenceFrame
  \/ GetHealth /\ PresenceFrame
  \/ GetStatusUptime /\ PresenceFrame
  \/ GetNow /\ PresenceFrame
  \/ GetPulse /\ PresenceFrame
  \/ PresenceKeyExpires /\ PresenceFrame
  \/ \E d \in PresenceTickSteps : Tick(d) /\ UNCHANGED presenceVars /\ PresenceFrame

\* the answer to a mutation that was turned down, with the shape of the body
\* it carried and whether that body had a "tasks" member
Rejected(path, code, body, hasTasks) ==
  [path |-> path, status |-> code, history |-> <<>>, limit |-> NoLimit, at |-> now,
   body |-> body, hasTasks |-> hasTasks]

\* the six keys the mutations write
MutationKeys == <<historyKv, teamKv, tasksKv, presenceKv, lastSeenKv, startedKv>>

\* what a request to a mutation endpoint carries as its body: text that is not
\* JSON, JSON that is not an object (null, an array, a number), an object
\* lacking a required member or holding one of the wrong type, a valid object
BodyShapes == {"unreadable", "notObject", "incomplete", "valid"}

PostSetPresence_tasksFirst(authorized, body, activity, hasTasks) ==
  IF ~authorized
  THEN /\ authFailKv' = authFailKv + 1
       /\ presResp' = Rejected("set-presence", "401", body, hasTasks)
       /\ UNCHANGED <<MutationKeys, appended, appendCalls, clockVars>>
  ELSE IF body \in {"unreadable", "notObject"}
  THEN /\ presResp' = Rejected("set-presence", "400", body, hasTasks)
       /\ UNCHANGED <<MutationKeys, appended, appendCalls, clockVars, authFailKv>>
  ELSE IF body = "incomplete"
  THEN /\ presResp' = Rejected("set-presence", "400", body, hasTasks)
       /\ tasksKv' = IF hasTasks THEN stringify(<<>>) ELSE tasksKv
       /\ UNCHANGED <<historyKv, teamKv, presenceKv, lastSeenKv, startedKv,
                      appended, appendCalls, clockVars, authFailKv>>
  ELSE SetPresence(activity, "active", {1}, hasTasks) /\ UNCHANGED authFailKv

\* POST /set-presence (lines 1524-1601): the audit key of a request without
\* the credential, the three 400 answers, then the writes
PostSetPresence(authorized, body, activity, hasTasks) ==
  IF ~authorized
  THEN /\ authFailKv' = authFailKv + 1
       /\ presResp' = Rejected("set-presence", "401", body, hasTasks)
       /\ UNCHANGED <<MutationKeys, appended, appendCalls, clockVars>>
  ELSE IF body # "valid"
  THEN /\ presResp' = Rejected("set-presence", "400", body, hasTasks)
       /\ UNCHANGED <<MutationKeys, appended, appendCalls, clockVars, authFailKv>>
  ELSE SetPresence(activity, "active", {1}, hasTasks) /\ UNCHANGED authFailKv

\* POST /heartbeat (lines 1603-1660): a body that is not JSON is taken as {},
\* a ping; "incomplete" is a history member that is not an array, or one of
\* whose elements is not an object
PostHeartbeat(authorized, body, batch) ==
  IF ~authorized
  THEN /\ presResp' = Rejected("heartbeat", "401", body, FALSE)
       /\ UNCHANGED <<MutationKeys, appended, appendCalls, clockVars, authFailKv>>
  ELSE IF body \in {"notObject", "incomplete"}
  THEN /\ presResp' = Rejected("heartbeat", "400", body, FALSE)
       /\ UNCHANGED <<MutationKeys, appended, appendCalls, clockVars, authFailKv>>
  ELSE Heartbeat(IF body = "unreadable" THEN <<>> ELSE batch) /\ UNCHANGED authFailKv

\* POST /admin/activity (lines 1957-1986): request.json() is awaited outside
\* any try, and the members of the body are read before its type is checked,
\* so a body that is not JSON, or is null, ends the handler with an exception
\* (a 500); "incomplete" is a desc or a type that is missing or blank
PostAdminActivity(authorized, body, desc) ==
  IF ~authorized
  THEN /\ presResp' = Rejected("admin/activity", "401", body, FALSE)
       /\ UNCHANGED <<MutationKeys, appended, appendCalls, clockVars, authFailKv>>
  ELSE IF body # "valid"
  THEN /\ presResp' = Rejected("admin/activity",
                               IF body = "incomplete" THEN "400" ELSE "500", body, FALSE)
       /\ UNCHANGED <<MutationKeys, appended, appendCalls, clockVars, authFailKv>>
  ELSE AdminActivity(desc) /\ UNCHANGED authFailKv

\* requests to the three mutation endpoints, with and without the credential
\* and with every shape of body, and the clock; every step that leaves the
\* clock alone is a request, answered in presResp
MutationNext ==
  \/ \E authorized \in BOOLEAN, body \in BodyShapes, hasTasks \in BOOLEAN :
       /\ appendCalls < MaxRequests
       /\ ~authorized => authFailKv < MaxVaried
       /\ PostSetPresence(authorized, body, HistoryEntry(FALSE, 0, appended + 1), hasTasks)
       /\ MutationFrame
  \/ \E authorized \in BOOLEAN, body \in BodyShapes, k \in {0, 2} :
       /\ appendCalls < MaxRequests
       /\ PostHeartbeat(authorized, body,
                        [i \in 1..k |-> HistoryEntry(FALSE, 0, appended + i)])
       /\ MutationFrame
  \/ \E authorized \in BOOLEAN, body \in BodyShapes :
       /\ appendCalls < MaxRequests
       /\ PostAdminActivity(authorized, body, appended + 1)
       /\ MutationFrame
  \/ /\ now = 0
     /\ Tick(1) /\ UNCHANGED <<presenceVars, authFailKv>> /\ MutationFrame

\* C38: a request to /set-presence, /heartbeat or /admin/activity that is
\* answered 401 or 400 leaves the values under history, team, tasks, presence,
\* last_seen and started exactly as they were.
C38_RejectedLeavesStore ==
  [][(now' = now /\ presResp'.path \in {"set-presence", "heartbeat", "admin/activity"}
        /\ presResp'.status \in {"401", "400"})
       => MutationKeys' = MutationKeys]_vars

\* C38 witness: a set-presence carrying tasks but lacking a required member
\* was answered 400 at a time when earlier requests had filled the store, and
\* no tasks were stored
C38_Witness ==
  /\ presResp.path = "set-presence" /\ presResp.status = "400"
  /\ presResp.body = "incomplete" /\ presResp.hasTasks
  /\ tasksKv = Absent
  /\ historyKv.kind = "array" /\ Len(historyKv.v) = 2
  /\ presenceKv.kind = "json" /\ lastSeenKv.kind = "num"
  /\ presResp.at > 0

\* accepted heartbeats and set-presence calls, with the observer of the time
\* of the last one; admin activity, which is neither; and the two reads that
\* use the detector
DetectorNext ==
  \/ Heartbeat(<<>>) /\ acceptedAt' = now /\ DetectorFrame
  \/ appendCalls < MaxRequests
       /\ SetPresence(HistoryEntry(FALSE, 0, appended + 1), "active", {1}, FALSE)
       /\ acceptedAt' = now
       /\ DetectorFrame
  \/ appendCalls < MaxRequests
       /\ AdminActivity(appended + 1) /\ UNCHANGED acceptedAt /\ DetectorFrame
  \/ GetHealth /\ UNCHANGED acceptedAt /\ DetectorFrame
  \/ GetStatusUptime /\ UNCHANGED acceptedAt /\ DetectorFrame
  \/ \E d \in PresenceTickSteps :
       Tick(d) /\ UNCHANGED <<presenceVars, acceptedAt>> /\ DetectorFrame

\* C36: once a heartbeat or a set-presence has been accepted, at time t for
\* the last one, /health and /status/uptime answer operational at every time
\* up to and including t + 10 minutes and offline at every later time; and
\* the detector's verdict on the store changes from offline to online only
\* in a step that accepts a heartbeat or a set-presence.
C36_OnlineWindow ==
  [][/\ (presResp'.path \in {"health", "uptime"} /\ acceptedAt' >= 0)
          => /\ presResp'.status \in {"operational", "offline"}
             /\ presResp'.status = "operational"
                  <=> presResp'.at - acceptedAt' <= STATUS_OFFLINE_THRESHOLD_MS
     /\ (/\ getStatusPayload(lastSeenKv, now) = "offline"
         /\ getStatusPayload(lastSeenKv', now') = "operational")
          => /\ acceptedAt' = now
             /\ presResp'.path \in {"heartbeat", "set-presence"}
             /\ presResp'.status = "success"]_vars

\* C36 witness: /health answers offline one millisecond after the end of the
\* ten minutes that followed a set-presence accepted at a time t > 0, an
\* admin activity having been accepted since
C36_Witness ==
  /\ presResp.path = "health" /\ presResp.status = "offline"
  /\ acceptedAt > 0
  /\ presResp.at = acceptedAt + STATUS_OFFLINE_THRESHOLD_MS + 1
  /\ presenceKv.kind = "json" /\ presenceKv.timestamp = acceptedAt
  /\ appendCalls = 2

\* a step that answers a GET /history
HistoryStep == presResp' # presResp /\ presResp'.path = "history"

\* the number of elements of the stored list a read of "history" maps
StoredLength == IF historyKv.kind = "array" THEN Len(historyKv.v) ELSE 0

\* a limit parameter that is a number above 0 and below 1
BelowOne(param) == param.kind = "number" /\ param.tenths > 0 /\ param.tenths < 10

\* C39 as stated: whatever the limit parameter, GET /history answers at most
\* 20 entries and at least one when the stored history is not empty.
C39_NeverEmpty ==
  [][HistoryStep =>
       /\ Len(presResp'.history) <= HISTORY_LIMIT
       /\ StoredLength > 0 => Len(presResp'.history) >= 1]_vars

\* C39, amended: GET /history answers at most 20 entries; a limit parameter
\* that is a number above 0 and below 1 is floored to 0 and the answer is
\* empty; for every other value of the parameter (absent, not a number,
\* infinite, zero, negative, 1 or more) the answer holds at least one entry
\* when the stored history is not empty.
C39_EmptyOnlyBelowOne ==
  [][HistoryStep =>
       /\ Len(presResp'.history) <= HISTORY_LIMIT
       /\ BelowOne(presResp'.limit) => presResp'.history = <<>>
       /\ (~BelowOne(presResp'.limit) /\ StoredLength > 0)
            => Len(presResp'.history) >= 1]_vars

\* C39 witness: limit=0.5 was answered with no entry while the store held a
\* list of entries
C39_Witness ==
  /\ presResp.path = "history"
  /\ presResp.limit.kind = "number" /\ presResp.limit.tenths = 5
  /\ presResp.history = <<>>
  /\ StoredLength > 1
  /\ appendCalls > 0

\* a few appends, then the three reads that report history entries
HistoryViewsNext ==
  \/ \E a \in Activities(appended + 1) :
       appendCalls < MaxRequests /\ SetPresence(a, "active", {1}, a.hasTs) /\ PresenceFrame
  \/ \E b \in {x \in Batches(appended) : Len(x) = 2} :
       appendCalls < MaxRequests /\ Heartbeat(b) /\ PresenceFrame
  \/ GetHistory(LimitParam("absent", 0)) /\ PresenceFrame
  \/ GetNow /\ PresenceFrame
  \/ GetPulse /\ PresenceFrame
  \/ HistoryTick /\ UNCHANGED presenceVars /\ PresenceFrame

\* C35: for every stored history list, the entry behind last_event_desc of
\* /pulse and the first history entry of /now are the first entry GET
\* /history returns for the same store at the same time, the stored entry
\* with the greatest timestamp (and none is reported when /history is empty).
C35_SameNewestEntry ==
  [][(presResp' # presResp /\ presResp'.path \in {"pulse", "now"})
       => Slice(presResp'.history, 1) = Slice(historyView(historyKv, now, HISTORY_LIMIT), 1)]_vars

\* C14: the detector behind /health and /status/uptime answers operational
\* exactly when a finite last_seen is stored and the time since it is at most
\* 10 minutes; in every other case, a missing or non-numeric last_seen
\* included, it answers offline.
C14_Detector ==
  presResp.path \in {"health", "uptime"} =>
    /\ presResp.status \in {"operational", "offline"}
    /\ presResp.status = "operational"
         <=> /\ lastSeenKv.kind = "num"
             /\ presResp.at - lastSeenKv.v <= STATUS_OFFLINE_THRESHOLD_MS

\* a last_seen exactly 10 minutes old is answered operational
C14_Witness ==
  /\ presResp.path = "health"
  /\ presResp.status = "operational"
  /\ lastSeenKv.kind = "num"
  /\ presResp.at - lastSeenKv.v = STATUS_OFFLINE_THRESHOLD_MS

\* the verdict of the detector on a stored last_seen at time t
Online(lastSeenRaw, t) ==
  lastSeenRaw.kind = "num" /\ t - lastSeenRaw.v <= STATUS_OFFLINE_THRESHOLD_MS

StoredState(presenceRaw) ==
  IF presenceRaw.kind \in {"null", "corrupt"} \/ presenceRaw.state = "" THEN "active"
  ELSE presenceRaw.state

RegistryItems == {Item(r, u, v) : r \in Repos, u \in BOOLEAN, v \in BOOLEAN}

RegistryInit == derivIn \in SeqsUpTo(RegistryItems, MaxFleet) /\ derivOut = NotDerived

\* lines 877-885: the entries of a fetched payload, served and cached
ExtractRegistry ==
  /\ ~derivOut.done
  /\ derivOut' = Derived(TRUE, derivIn, extractRegistryEntries(derivIn), "fetched")
  /\ UNCHANGED derivIn

\* lines 861-864: the entries served from the cached copy by a later read
ReadCachedRegistry ==
  /\ derivOut.done /\ derivOut.status = "fetched"
  /\ derivOut' = Derived(TRUE, derivIn,
                         parseRegistryEntries(stringify(derivOut.statuses)).v, "cached")
  /\ UNCHANGED derivIn

RegistryNext ==
  \/ ExtractRegistry /\ DerivFrame
  \/ ReadCachedRegistry /\ DerivFrame

\* the first valid item of repo r in a payload
FirstValid(payload, r) ==
  payload[CHOOSE i \in DOMAIN payload :
            /\ payload[i].valid /\ payload[i].repo = r
            /\ \A j \in DOMAIN payload :
                 (payload[j].valid /\ payload[j].repo = r) => i <= j]

\* C16: the served list has exactly one entry for each repo, spellings that
\* differ only in case counting as one, that has a valid item in the payload;
\* that entry is the first valid item of the repo in payload order; and the
\* list is in ascending order of repo.
C16_RegistryEntries ==
  derivOut.done =>
    LET served == derivOut.statuses
    IN  /\ \A r \in Repos :
             IF \E i \in DOMAIN derivIn : derivIn[i].valid /\ derivIn[i].repo = r
             THEN /\ Cardinality({k \in DOMAIN served : served[k].repo = r}) = 1
                  /\ \E k \in DOMAIN served : served[k] = FirstValid(derivIn, r)
             ELSE \A k \in DOMAIN served : served[k].repo # r
        /\ \A k \in DOMAIN served : served[k].repo \in Repos
        /\ \A k, l \in DOMAIN served : k < l => served[k].repo < served[l].repo

\* a payload naming repo 1 in two spellings after repo 2 is served as the
\* first spelling of repo 1, then repo 2
C16_Witness ==
  /\ derivOut.done
  /\ derivIn = <<Item(2, FALSE, TRUE), Item(1, TRUE, TRUE), Item(1, FALSE, TRUE)>>
  /\ derivOut.statuses = <<Item(1, TRUE, TRUE), Item(2, FALSE, TRUE)>>
  /\ derivOut.status = "cached"

(***************************************************************************)
(* History hashes: the hash toHistoryEntry gives an entry                  *)
(***************************************************************************)
\* A timestamp is a finite double, far beyond 32 bits for epoch milliseconds.
\* It is kept as its sign, the hexadecimal digits of the whole part of its
\* magnitude (most significant first, <<0>> for zero) and whether it has a
\* fractional part.
Timestamp(neg, digits, frac) == [neg |-> neg, digits |-> digits, frac |-> frac]

\* the digits of a whole number plus one
RECURSIVE Succ16(_)
Succ16(digits) ==
  IF digits = <<>> THEN <<1>>
  ELSE LET n == Len(digits)
       IN IF digits[n] < 15 THEN [digits EXCEPT ![n] = @ + 1]
          ELSE Succ16(SubSeq(digits, 1, n - 1)) \o <<0>>

\* Math.floor
floor(ts) ==
  IF ~ts.neg THEN Timestamp(FALSE, ts.digits, FALSE)
  ELSE IF ts.frac THEN Timestamp(TRUE, Succ16(ts.digits), FALSE)
  ELSE Timestamp(ts.digits # <<0>>, ts.digits, FALSE)

\* Number.prototype.toString(16) of a whole number: a string as the sequence
\* of its characters, the digits 0..15 and MinusSign for "-"
MinusSign == 0 - 1
toString16(n) == (IF n.neg THEN <<MinusSign>> ELSE <<>>) \o n.digits

\* String.prototype.slice(-k)
SliceLast(text, k) ==
  SubSeq(text, IF Len(text) > k THEN Len(text) - k + 1 ELSE 1, Len(text))

HASH_LENGTH == 8

\* lines 1425-1427
makeHistoryHash(timestamp) == SliceLast(toString16(floor(timestamp)), HASH_LENGTH)

\* An item handed to toHistoryEntry: its timestamp if it has a finite one,
\* and its hash if it is a string (the empty string counts as none).
HashItem(hasTs, timestamp, hash) == [hasTs |-> hasTs, timestamp |-> timestamp, hash |-> hash]

\* lines 1436-1446: the timestamp and the hash of the entry made of an item
toHashedEntry(item, fallbackTimestamp) ==
  LET timestamp == IF item.hasTs THEN item.timestamp ELSE fallbackTimestamp
  IN [timestamp |-> timestamp,
      supplied |-> Len(item.hash) > 0,
      hash |-> IF Len(item.hash) > 0 THEN item.hash ELSE makeHistoryHash(timestamp)]

\* epoch milliseconds of late 2025, 0x19a41dd1800, and neighbours of it
EpochDigits == <<1, 9, 10, 4, 1, 13, 13, 1, 8, 0, 0>>
HashTimestamps ==
  {Timestamp(FALSE, EpochDigits, FALSE),
   Timestamp(FALSE, EpochDigits, TRUE),
   Timestamp(FALSE, Succ16(EpochDigits), FALSE),
   Timestamp(FALSE, [EpochDigits EXCEPT ![3] = 11], FALSE),
   Timestamp(FALSE, SubSeq(EpochDigits, 4, 11), FALSE),
   Timestamp(FALSE, <<3, 14, 8>>, FALSE),
   Timestamp(TRUE, <<0>>, TRUE),
   Timestamp(TRUE, SubSeq(EpochDigits, 4, 11), FALSE)}

HashItems ==
  {HashItem(TRUE, ts, h) : ts \in HashTimestamps, h \in {<<>>, <<10, 11, 12>>}}
    \cup {HashItem(FALSE, Timestamp(FALSE, <<0>>, FALSE), h) : h \in {<<>>, <<10, 11, 12>>}}

\* two items of one batch, and the fallback timestamps now and now - 1 their
\* positions give them
HashInit ==
  /\ derivIn \in HashItems \X HashItems
  /\ derivOut = NotDerived

HashFallbacks ==
  <<Timestamp(FALSE, Succ16(EpochDigits), FALSE), Timestamp(FALSE, EpochDigits, FALSE)>>

\* lines 1641-1643: toHistoryEntry on each item of the batch
HashBatch ==
  /\ ~derivOut.done
  /\ derivOut' = [done |-> TRUE,
                  entries |-> [i \in 1..2 |-> toHashedEntry(derivIn[i], HashFallbacks[i])]]
  /\ UNCHANGED derivIn

HashNext == HashBatch /\ DerivFrame

\* C25: any two history entries that have no caller-supplied hash and have
\* different timestamps receive different derived hashes.
C25_DistinctHashes ==
  derivOut.done =>
    \A i, j \in 1..2 :
      (/\ ~derivOut.entries[i].supplied /\ ~derivOut.entries[j].supplied
       /\ derivOut.entries[i].timestamp # derivOut.entries[j].timestamp)
        => derivOut.entries[i].hash # derivOut.entries[j].hash

(***************************************************************************)
(* Specifications                                                          *)
(***************************************************************************)
InitMetrics == MetricsInit /\ ClockParked /\ RateParked /\ CacheParked /\ DerivParked /\ FleetParked /\ PresenceParked /\ ObserverParked
SpecMetrics == InitMetrics /\ [][MetricsNext]_vars
SpecMetricsSeq == InitMetrics /\ [][MetricsSeqNext]_vars

InitRate == RateInit /\ ClockParked /\ MetricsParked /\ CacheParked /\ DerivParked /\ FleetParked /\ PresenceParked /\ ObserverParked
SpecRate == InitRate /\ [][RateNext]_vars
SpecRace == InitRate /\ [][RaceNext]_vars
InitManyClients == EmptyStoreInit /\ ClockParked /\ MetricsParked /\ CacheParked /\ DerivParked /\ FleetParked /\ PresenceParked /\ ObserverParked
SpecManyClients == InitManyClients /\ [][ManyNext]_vars

SpecBurst == InitRate /\ [][BurstNext]_vars

InitRoute == RouteInit /\ ClockParked /\ MetricsParked /\ CacheParked /\ DerivParked /\ FleetParked /\ PresenceParked /\ ObserverParked
SpecRoute == InitRoute /\ [][RouteNext]_vars

InitCache == CacheInit /\ MetricsParked /\ ClockParked /\ RateParked /\ DerivParked /\ FleetParked /\ PresenceParked /\ ObserverParked
SpecCache == InitCache /\ [][CacheNext]_vars

InitFleet == FleetInit /\ ClockParked /\ MetricsParked /\ RateParked /\ DerivParked /\ PresenceParked /\ ObserverParked
SpecFleet == InitFleet /\ [][FleetNext]_vars
InitRefresh == RefreshInit /\ ClockParked /\ MetricsParked /\ RateParked /\ DerivParked /\ PresenceParked /\ ObserverParked
SpecRefresh == InitRefresh /\ [][RefreshNext]_vars

InitStatus == StatusInit /\ MetricsParked /\ ClockParked /\ RateParked /\ CacheParked /\ FleetParked /\ PresenceParked /\ ObserverParked
SpecStatus == InitStatus /\ [][StatusNext]_vars

InitTrend == TrendInit /\ MetricsParked /\ ClockParked /\ RateParked /\ CacheParked /\ FleetParked /\ PresenceParked /\ ObserverParked
SpecTrend == InitTrend /\ [][TrendNext]_vars
InitHistory == HistoryInit /\ ClockParked /\ MetricsParked /\ RateParked /\ CacheParked /\ DerivParked /\ FleetParked /\ ObserverParked
SpecHistory == InitHistory /\ [][HistoryNext]_vars
SpecHistoryRead == InitHistory /\ [][HistoryReadNext]_vars
SpecHeartbeatRead == InitHistory /\ [][HeartbeatReadNext]_vars
SpecHistoryViews == InitHistory /\ [][HistoryViewsNext]_vars
InitAppendRace == AppendInit /\ ClockParked /\ MetricsParked /\ RateParked /\ CacheParked /\ DerivParked /\ FleetParked /\ ObserverParked
SpecAppendRace == InitAppendRace /\ [][AppendRaceNext]_vars

InitPresence == PresenceInit /\ ClockParked /\ MetricsParked /\ RateParked /\ CacheParked /\ DerivParked /\ FleetParked /\ ObserverParked
SpecPresence == InitPresence /\ [][PresenceNext]_vars
SpecDetector == InitPresence /\ [][DetectorNext]_vars
SpecMutation == InitPresence /\ [][MutationNext]_vars

InitRegistry == RegistryInit /\ MetricsParked /\ ClockParked /\ RateParked /\ CacheParked /\ FleetParked /\ PresenceParked /\ ObserverParked
SpecRegistry == InitRegistry /\ [][RegistryNext]_vars

InitHash == HashInit /\ MetricsParked /\ ClockParked /\ RateParked /\ CacheParked /\ FleetParked /\ PresenceParked /\ ObserverParked
SpecHash == InitHash /\ [][HashNext]_vars

InitUpstreamRead == InitCache \/ InitFleet
SpecUpstreamRead == InitUpstreamRead /\ [][UpstreamReadNext]_vars

SpecCacheRead == InitCache /\ [][CacheReadNext]_vars

====
